---- MODULE Spec2Model ----
(***************************************************************************)
(* Customer-support triage workflow (LangGraph state graph).               *)
(*                                                                         *)
(* The model follows src/src/agent/graph.py and the eight node functions.  *)
(* A string is a sequence of tokens; a token is either the blank " " or a  *)
(* run of non-blank characters whose length TokLen gives.  None (Python's  *)
(* None / an unset state key) is a reserved one-token sequence.            *)
(***************************************************************************)
EXTENDS Integers, Sequences, FiniteSets, TLC

\* ------------------------------------------------------------------ bounds
MaxRuns == 2
MaxAttachments == 1
MaxIdLen == 3
MaxConcurrentRuns == 2
MaxTextLen == 4

\* ------------------------------------------------------------- strings
None == <<"~None">>

TokLen(t) ==
  CASE t = " " -> 1
    [] t = "\t" -> 1
    [] t = "\n" -> 1
    [] t = "a@x" -> 3
    [] t = "b@y" -> 3
    [] t = "AS-1" -> 4
    [] t = "T1" -> 2
    [] t = "T2" -> 2
    [] t = "O1" -> 2
    [] t = "O2" -> 2
    [] t = "Delivery" -> 8
    [] t = "w40" -> 40
    [] t = "w92" -> 92
    [] t = "w99" -> 99
    [] t = "w100" -> 100
    [] t = "w120" -> 120
    [] OTHER -> 5

RECURSIVE StrLen(_)
StrLen(s) == IF s = <<>> THEN 0 ELSE TokLen(Head(s)) + StrLen(Tail(s))

\* Python truthiness of an Optional[str]: None and "" are falsy.
Truthy(s) == s # None /\ s # <<>>

\* The whitespace characters str.strip() removes.
Whitespace == { " ", "\t", "\n" }

RECURSIVE LStrip(_)
LStrip(s) == IF s # <<>> /\ Head(s) \in Whitespace THEN LStrip(Tail(s)) ELSE s

RECURSIVE RStrip(_)
RStrip(s) ==
  IF s # <<>> /\ s[Len(s)] \in Whitespace THEN RStrip(SubSeq(s, 1, Len(s) - 1)) ELSE s

\* str.strip()
Strip(s) == RStrip(LStrip(s))

\* Python's `lit in s` for strings: lit is a contiguous part of s.
Contains(s, lit) ==
  \E i \in 1..(Len(s) - Len(lit) + 1) : SubSeq(s, i, i + Len(lit) - 1) = lit

\* a or b
Or(a, b) == IF Truthy(a) THEN a ELSE b

\* Function application with a default: dict.get(k, default)
Get(d, k, default) == IF k \in DOMAIN d THEN d[k] ELSE default

\* ------------------------------------------------------------ messages
\* Message content is a flat string or a list of content blocks.
StrContent(s) == [isList |-> FALSE, text |-> s, blocks |-> <<>>]
ListContent(bs) == [isList |-> TRUE, text |-> <<>>, blocks |-> bs]
TextBlock(s) == [hasText |-> TRUE, text |-> s]
ToolUseBlock == [hasText |-> FALSE, text |-> <<>>]

\* bool(msg.content): a non-empty string or a non-empty list
ContentTruthy(c) == IF c.isList THEN c.blocks # <<>> ELSE c.text # <<>>

\* str(content) of a list of blocks: one token per block between brackets
RECURSIVE ReprBlocks(_)
ReprBlocks(bs) ==
  IF bs = <<>> THEN <<>>
  ELSE (IF Head(bs).hasText THEN <<"{text:">> \o Head(bs).text \o <<"}">> ELSE <<"{tool_use}">>)
       \o ReprBlocks(Tail(bs))
Repr(c) == IF c.isList THEN <<"[">> \o ReprBlocks(c.blocks) \o <<"]">> ELSE c.text

extract_text_content(c) ==
  IF c.isList
    THEN IF c.blocks # <<>> /\ c.blocks[1].hasText
           THEN Strip(c.blocks[1].text)
           ELSE Strip(Repr(c))
    ELSE Strip(c.text)

NoArgs == [k \in {} |-> <<>>]
HumanMessage(s) == [type |-> "human", content |-> StrContent(s), tool_calls |-> <<>>,
                    name |-> "", args |-> NoArgs, result |-> NoArgs]
AIMessage(c, calls) == [type |-> "ai", content |-> c, tool_calls |-> calls,
                        name |-> "", args |-> NoArgs, result |-> NoArgs]
\* A tool message keeps the name and arguments of the call it answers
\* (tool_call_id) and the mapping the tool returned.
ToolMessage(n, a, r) == [type |-> "tool", content |-> StrContent(<<"json">>), tool_calls |-> <<>>,
                         name |-> n, args |-> a, result |-> r]
ToolCall(n, a) == [name |-> n, args |-> a]

\* ------------------------------------------------------ workflow state
Fields == {"messages", "issue_no", "summary", "description", "attachments",
           "category", "response", "assignee", "reporter", "customer_email",
           "customer_name", "transaction_id", "order_no"}

\* CustomerSupportState of a new thread: only the input messages are set
\* (input_schema=MessagesState); attachments is a list channel.
FreshState(msgs) ==
  [messages |-> msgs, issue_no |-> None, summary |-> None, description |-> None,
   attachments |-> <<>>, category |-> None, response |-> None, assignee |-> None,
   reporter |-> None, customer_email |-> None, customer_name |-> None,
   transaction_id |-> None, order_no |-> None]

NoUpdate == [k \in {} |-> <<>>]

Merge_overwrite_messages(st, upd) ==
  [f \in Fields |->
     IF f \notin DOMAIN upd THEN st[f]
     ELSE IF f = "attachments" THEN st[f] \o upd[f]
     ELSE upd[f]]

\* The graph runtime's merge of a node's partial update: messages and
\* attachments accumulate, every other key overwrites.
Merge(st, upd) ==
  [f \in Fields |->
     IF f \notin DOMAIN upd THEN st[f]
     ELSE IF f \in {"messages", "attachments"} THEN st[f] \o upd[f]
     ELSE upd[f]]

\* What a node call produced: a returned update, or a raised exception.
Return(upd, writes) == [raised |-> FALSE, update |-> upd, writes |-> writes]
Raise(writes) == [raised |-> TRUE, update |-> NoUpdate, writes |-> writes]

\* ---------------------------------------------------------------- tools
\* The external collaborators a tool reaches.  customers: the rows the store
\* knows; reporter: the tracker's reporter of the issue; mcp: how the MCP
\* gateway answers a call (a mapping, a JSON string, some other string, an
\* object of another type, or a failure); configured / service / reinit_ok:
\* the module state initialize_customer_validation_tools leaves and whether
\* a late initialisation succeeds; jira_service_ok: whether the tracker
\* service can be obtained; tracker: whether the tracker answers.
World(reporter, mcp, tracker) ==
  [customers |-> {<<"a@x">>}, reporter |-> reporter, mcp |-> mcp,
   configured |-> TRUE, service |-> TRUE, reinit_ok |-> TRUE,
   jira_service_ok |-> TRUE, tracker |-> tracker]

OwnWorld == World(<<"a@x">>, "dict", "ok")
OtherWorld == World(<<"b@y">>, "dict", "ok")

\* What a tool call produced: whether it raised, the mapping it returned,
\* and whether the backend was contacted.
ToolReturn(result, contacted) == [raised |-> FALSE, result |-> result, contacted |-> contacted]
ToolRaise == [raised |-> TRUE, result |-> NoArgs, contacted |-> FALSE]

_call_mcp_tool_unguarded(tool_name, row, w) ==
  IF ~(w.configured /\ (w.service \/ w.reinit_ok)) THEN ToolRaise
  ELSE CASE w.mcp = "dict" -> ToolReturn(row, TRUE)
         [] w.mcp = "json" -> ToolReturn(row, TRUE)
         [] w.mcp = "text" -> ToolReturn([result |-> <<"text">>], TRUE)
         [] w.mcp = "other" -> ToolReturn([result |-> <<"repr">>], TRUE)
         [] OTHER -> ToolRaise

\* _call_mcp_tool: row is what the store holds for the key (the empty
\* mapping when it holds nothing).  _get_mcp_service raises, outside the
\* try, when the tools were never configured or when the service is missing
\* and cannot be created now.
_call_mcp_tool(tool_name, row, w) ==
  IF ~(w.configured /\ (w.service \/ w.reinit_ok)) THEN ToolRaise
  ELSE CASE w.mcp = "dict" -> ToolReturn(row, TRUE)
         [] w.mcp = "json" -> ToolReturn(row, TRUE)
         [] w.mcp = "text" -> ToolReturn([result |-> <<"text">>], TRUE)
         [] w.mcp = "other" -> ToolReturn([result |-> <<"repr">>], TRUE)
         [] OTHER -> ToolReturn([error |-> <<"Could not call">>], TRUE)

find_customer(args, w) ==
  LET email == Get(args, "email", <<>>)
      customer_id == Get(args, "customer_id", <<>>)
  IN IF email = <<>> /\ customer_id = <<>> THEN ToolReturn(NoArgs, FALSE)
     ELSE _call_mcp_tool("find_customer",
                         IF email \in w.customers
                           THEN [email |-> email, name |-> <<"Ann">>] ELSE NoArgs, w)

\* JiraService.get_field_value swallows every tracker failure and returns
\* None; only a failure to obtain the service reaches the tool's except.
get_jira_field_value(args, w) ==
  LET issue_key == Get(args, "issue_key", <<>>)
      field_name == Get(args, "field_name", <<>>)
  IN IF issue_key = <<>> \/ field_name = <<>> THEN ToolReturn(NoArgs, FALSE)
     ELSE IF ~w.jira_service_ok THEN ToolReturn([error |-> <<"Could not get field value">>], FALSE)
     ELSE IF w.tracker # "ok" THEN ToolReturn(NoArgs, TRUE)
     ELSE IF issue_key # <<"AS-1">> THEN ToolReturn(NoArgs, TRUE)
     ELSE IF field_name = <<"reporter">> THEN ToolReturn([reporter |-> w.reporter], TRUE)
     ELSE ToolReturn(NoArgs, TRUE)

record_customer_info(args) ==
  LET email == Get(args, "email", <<>>)
      issue_no == Get(args, "issue_no", <<>>)
  IN [recorded |-> (IF Strip(email) # <<>> THEN <<"email">> ELSE <<>>)
                   \o (IF Strip(issue_no) # <<>> THEN <<"issue_no">> ELSE <<>>)]

\* find_order, find_transaction, get_transaction_for_order and
\* get_refund_for_order: one keyed lookup through the MCP gateway.
keyed_lookup(tool_name, args, key, w) ==
  LET k == Get(args, key, <<>>)
  IN IF k = <<>> THEN ToolReturn(NoArgs, FALSE)
     ELSE _call_mcp_tool(tool_name, [order_no |-> <<"O1">>, transaction_id |-> <<"T1">>], w)

find_order(args, w) == keyed_lookup("find_order", args, "order_no", w)
find_transaction(args, w) == keyed_lookup("find_transaction", args, "transaction_id", w)
get_transaction_for_order(args, w) == keyed_lookup("get_transaction_for_order", args, "order_no", w)
get_refund_for_order(args, w) == keyed_lookup("get_refund_for_order", args, "order_no", w)

CallTool(call, w) ==
  CASE call.name = "find_customer" -> find_customer(call.args, w)
    [] call.name = "find_order" -> find_order(call.args, w)
    [] call.name = "find_transaction" -> find_transaction(call.args, w)
    [] call.name = "get_transaction_for_order" -> get_transaction_for_order(call.args, w)
    [] call.name = "get_refund_for_order" -> get_refund_for_order(call.args, w)
    [] call.name = "get_jira_field_value" -> get_jira_field_value(call.args, w)
    [] call.name = "record_customer_info" -> ToolReturn(record_customer_info(call.args), FALSE)
    [] OTHER -> ToolReturn(NoArgs, FALSE)

\* The mapping the agent loop puts into the tool message.
RunTool(call, w) == CallTool(call, w).result

\* ----------------------------------------------------------- agent loop
\* create_agent(...).invoke: the model's turns are given; every turn that
\* requests tools is followed by one tool message per call, and the first
\* turn without tool calls ends the loop.
RECURSIVE ToolResults(_, _)
ToolResults(calls, w) ==
  IF calls = <<>> THEN <<>>
  ELSE <<ToolMessage(Head(calls).name, Head(calls).args, RunTool(Head(calls), w))>>
       \o ToolResults(Tail(calls), w)

RECURSIVE AgentRun(_, _)
AgentRun(turns, w) ==
  IF turns = <<>> THEN <<>>
  ELSE <<Head(turns)>> \o ToolResults(Head(turns).tool_calls, w)
       \o (IF Head(turns).tool_calls = <<>> THEN <<>> ELSE AgentRun(Tail(turns), w))

\* ------------------------------------------- Customer Conversation node
\* Customer Conversation and the triage nodes obtain their configuration
\* through Configuration.from_environment, which agent/configuration.py
\* does not define; the nodes are modelled as building the configuration
\* from the process environment, as from_runnable_config does.
ConversationFallback ==
  AIMessage(StrContent(<<"I apologize, but I encountered an error.">>), <<>>)

FinalTurn(text) == AIMessage(StrContent(text), <<>>)

ConversationScripts ==
  { <<FinalTurn(<<"w40">>)>>,
    <<AIMessage(StrContent(<<>>), <<ToolCall("find_customer", [email |-> <<"a@x">>])>>),
      FinalTurn(<<"w40">>)>> }

ConversationEnvs ==
  { [init_ok |-> FALSE, agent_raises |-> FALSE, turns |-> <<>>, world |-> OwnWorld],
    [init_ok |-> TRUE, agent_raises |-> TRUE, turns |-> <<>>, world |-> OwnWorld] }
  \cup { [init_ok |-> TRUE, agent_raises |-> FALSE, turns |-> t, world |-> OwnWorld] :
           t \in ConversationScripts }

customer_conversation_node_no_fallback(st, env) ==
  IF ~env.init_ok THEN Raise(<<>>)
  ELSE IF ~Truthy(st.issue_no) THEN Return(NoUpdate, <<>>)
  ELSE IF env.agent_raises THEN Raise(<<>>)
  ELSE LET agent_messages == st.messages \o AgentRun(env.turns, env.world)
       IN IF Len(agent_messages) > Len(st.messages)
            THEN Return([messages |-> SubSeq(agent_messages, Len(st.messages) + 1,
                                             Len(agent_messages))], <<>>)
            ELSE Return(NoUpdate, <<>>)

customer_conversation_node(st, env) ==
  IF ~env.init_ok THEN Raise(<<>>)
  ELSE IF ~Truthy(st.issue_no) THEN Return(NoUpdate, <<>>)
  ELSE IF env.agent_raises THEN Return([messages |-> <<ConversationFallback>>], <<>>)
  ELSE LET agent_messages == st.messages \o AgentRun(env.turns, env.world)
       IN IF Len(agent_messages) > Len(st.messages)
            THEN Return([messages |-> SubSeq(agent_messages, Len(st.messages) + 1,
                                             Len(agent_messages))], <<>>)
            ELSE Return(NoUpdate, <<>>)

\* ------------------------------------ Collect Customer Information node
CollectFallback ==
  AIMessage(StrContent(<<"I need your email address and support issue/ticket number.">>), <<>>)

RECURSIVE ExtractFromCalls_any_tool(_, _)
ExtractFromCalls_any_tool(calls, acc) ==
  IF calls = <<>> THEN acc
  ELSE LET c == Head(calls)
           email == Get(c.args, "email", <<>>)
           issue == Get(c.args, "issue_no", <<>>)
           a1 == IF Strip(email) # <<>> THEN ("customer_email" :> Strip(email)) @@ acc ELSE acc
           a2 == IF Strip(issue) # <<>> THEN ("issue_no" :> Strip(issue)) @@ a1 ELSE a1
       IN ExtractFromCalls_any_tool(Tail(calls), a2)

RECURSIVE ExtractFromCalls(_, _)
ExtractFromCalls(calls, acc) ==
  IF calls = <<>> THEN acc
  ELSE LET c == Head(calls)
           email == Get(c.args, "email", <<>>)
           issue == Get(c.args, "issue_no", <<>>)
           a1 == IF Strip(email) # <<>> THEN ("customer_email" :> Strip(email)) @@ acc ELSE acc
           a2 == IF Strip(issue) # <<>> THEN ("issue_no" :> Strip(issue)) @@ a1 ELSE a1
       IN ExtractFromCalls(Tail(calls),
                           IF c.name = "record_customer_info" THEN a2 ELSE acc)

RECURSIVE ExtractFromMessages(_, _)
ExtractFromMessages(msgs, acc) ==
  IF msgs = <<>> THEN acc
  ELSE ExtractFromMessages(Tail(msgs),
         IF Head(msgs).type = "ai" /\ Head(msgs).tool_calls # <<>>
           THEN ExtractFromCalls(Head(msgs).tool_calls, acc)
           ELSE acc)

_extract_info_from_tool_calls(msgs) == ExtractFromMessages(msgs, NoUpdate)

ValidateTurn(e, i) ==
  AIMessage(StrContent(<<>>),
            <<ToolCall("find_customer", [email |-> e]),
              ToolCall("get_jira_field_value", [issue_key |-> i, field_name |-> <<"reporter">>])>>)
RecordTurn(e, i) ==
  AIMessage(StrContent(<<>>), <<ToolCall("record_customer_info", [email |-> e, issue_no |-> i])>>)

\* The model's turns: it may answer at once, validate and then answer,
\* record without validating, or validate and record.  Where the tracker's
\* reporter is someone else, it either reports the mismatch or records the
\* pair all the same.
CollectScripts(w) ==
  IF w = OwnWorld
    THEN { <<FinalTurn(<<"w40">>)>> }
         \cup { <<RecordTurn(e, i), FinalTurn(<<"w40">>)>> :
                  e \in { <<>>, <<" ">>, <<" ", "a@x">> }, i \in { <<>>, <<"AS-1", " ">> } }
         \cup { <<ValidateTurn(<<"a@x">>, <<"AS-1">>), RecordTurn(<<"a@x">>, <<"AS-1">>),
                  FinalTurn(<<"w40">>)>> }
    ELSE { <<ValidateTurn(<<"a@x">>, <<"AS-1">>), FinalTurn(<<"w40">>)>>,
           <<ValidateTurn(<<"a@x">>, <<"AS-1">>), RecordTurn(<<"a@x">>, <<"AS-1">>),
             FinalTurn(<<"w40">>)>> }

CollectEnvs ==
  { [init_ok |-> FALSE, agent_raises |-> FALSE, turns |-> <<>>, world |-> OwnWorld, db |-> "found"],
    [init_ok |-> TRUE, agent_raises |-> TRUE, turns |-> <<>>, world |-> OwnWorld, db |-> "found"] }
  \cup UNION { { [init_ok |-> TRUE, agent_raises |-> FALSE, turns |-> t, world |-> w, db |-> d] :
                   t \in CollectScripts(w), d \in {"found", "missing", "error"} } :
                 w \in { OwnWorld, OtherWorld } }

collect_customer_information_node(st, env) ==
  IF ~env.init_ok THEN Raise(<<>>)
  ELSE IF Truthy(st.customer_email) /\ Truthy(st.issue_no)
    THEN IF env.db = "found"
           THEN Return([customer_name |-> <<"Ann">>], <<>>)
           ELSE Raise(<<>>)
  ELSE IF env.agent_raises THEN Return([messages |-> <<CollectFallback>>], <<>>)
  ELSE
    LET result == st.messages \o AgentRun(env.turns, env.world)
        extracted_info == _extract_info_from_tool_calls(result)
        u1 == IF Truthy(Get(extracted_info, "customer_email", None))
                THEN [customer_email |-> extracted_info["customer_email"]] ELSE NoUpdate
        u2 == IF Truthy(Get(extracted_info, "issue_no", None))
                THEN ("issue_no" :> extracted_info["issue_no"]) @@ u1 ELSE u1
        final_email == Or(Get(u2, "customer_email", None), st.customer_email)
        final_issue == Or(Get(u2, "issue_no", None), st.issue_no)
        lookup == Truthy(final_email) /\ Truthy(final_issue)
        u3 == IF lookup /\ env.db = "found"
                THEN ("customer_name" :> <<"Ann">>) @@ u2 ELSE u2
        u4 == IF Len(result) > Len(st.messages)
                THEN ("messages" :> SubSeq(result, Len(st.messages) + 1, Len(result))) @@ u3
                ELSE u3
    IN IF lookup /\ env.db = "error"
         THEN Return([messages |-> <<CollectFallback>>], <<>>)
         ELSE Return(u4, <<>>)

\* ---------------------------------------------- Fetch Issue Details node
\* What the tracker holds for the issue; NoIssue when fetch_issue finds
\* nothing or fails (it returns None in both cases).
NoIssue == [found |-> FALSE, summary |-> None, description |-> None, attachment |-> <<>>,
            assignee |-> None, reporter |-> None, category |-> None, response |-> None]

\* The issue carries at most max attachments, each under its own name.
TrackerIssues(max) ==
  { [found |-> TRUE, summary |-> sd, description |-> sd, attachment |-> a,
     assignee |-> None, reporter |-> <<"a@x">>, category |-> None, response |-> None] :
      sd \in { None, <<"w40">> },
      a \in { [k \in 1..n |-> <<"file", ToString(k)>>] : n \in 0..max } }

FetchEnvs(max) ==
  { [issue |-> NoIssue, download_ok |-> <<>>] }
  \cup UNION { { [issue |-> i, download_ok |-> d] : d \in [1..Len(i.attachment) -> BOOLEAN] } :
                 i \in TrackerIssues(max) }

\* download_attachment_file for each attachment in order; a failed
\* download is skipped.
RECURSIVE Downloaded_until_failure(_, _, _)
Downloaded_until_failure(names, ok, issue_no) ==
  IF names = <<>> \/ ~ok[1] THEN <<>>
  ELSE << issue_no \o <<"-">> \o Head(names) >>
       \o Downloaded_until_failure(Tail(names), Tail(ok), issue_no)

RECURSIVE Downloaded(_, _, _)
Downloaded(names, ok, issue_no) ==
  IF names = <<>> THEN <<>>
  ELSE (IF ok[1] THEN << issue_no \o <<"-">> \o Head(names) >> ELSE <<>>)
       \o Downloaded(Tail(names), Tail(ok), issue_no)

fetch_issue_details_node(st, env) ==
  IF ~Truthy(st.issue_no) THEN Return(NoUpdate, <<>>)
  ELSE IF ~env.issue.found THEN Return(NoUpdate, <<>>)
  ELSE LET i == env.issue
       IN Return([summary |-> Or(i.summary, <<>>),
                  description |-> Or(i.description, <<>>),
                  attachments |-> Downloaded(i.attachment, env.download_ok, st.issue_no),
                  assignee |-> Or(i.assignee, <<>>),
                  reporter |-> Or(i.reporter, <<>>),
                  category |-> Or(i.category, <<>>),
                  response |-> Or(i.response, <<>>)], <<>>)

\* ------------------------------------------- Assign Support Contact node
AssignEnvs == [jira_assignee_username : { None, <<"bot">> }, assign_ok : BOOLEAN]

\* A mutation call issued to the tracker (whether or not it succeeded).
JiraWrite(op, issue, value) == [op |-> op, issue |-> issue, value |-> value]

update_assignee_node_optimistic(st, env) ==
  IF ~Truthy(st.issue_no) THEN Return(NoUpdate, <<>>)
  ELSE IF ~Truthy(env.jira_assignee_username) THEN Return(NoUpdate, <<>>)
  ELSE Return([assignee |-> env.jira_assignee_username],
              <<JiraWrite("assign_issue", st.issue_no, env.jira_assignee_username)>>)

update_assignee_node(st, env) ==
  IF ~Truthy(st.issue_no) THEN Return(NoUpdate, <<>>)
  ELSE IF ~Truthy(env.jira_assignee_username) THEN Return(NoUpdate, <<>>)
  ELSE LET w == <<JiraWrite("assign_issue", st.issue_no, env.jira_assignee_username)>>
       IN IF env.assign_ok
            THEN Return([assignee |-> env.jira_assignee_username], w)
            ELSE Return(NoUpdate, w)

\* ----------------------------------------------- Determine Category node
\* What the model may answer: one of the category names of the prompt (with
\* surrounding whitespace, or as a content list) or some other text.
CategoryReplies ==
  { StrContent(<<" ", "Delivery", "\n">>), ListContent(<<TextBlock(<<"Delivery">>)>>),
    StrContent(<<"Billing">>) }

CategoryEnvs ==
  { [llm_raises |-> TRUE, reply |-> StrContent(<<>>), set_ok |-> TRUE] }
  \cup [llm_raises : {FALSE}, reply : CategoryReplies, set_ok : BOOLEAN]

update_category_node_unstripped(st, env) ==
  IF ~Truthy(st.issue_no) THEN Return(NoUpdate, <<>>)
  ELSE IF env.llm_raises THEN Raise(<<>>)
  ELSE LET category == IF env.reply.isList THEN env.reply.blocks[1].text ELSE env.reply.text
       IN Return([category |-> category],
                 <<JiraWrite("set_category", st.issue_no, category)>>)

update_category_node(st, env) ==
  IF ~Truthy(st.issue_no) THEN Return(NoUpdate, <<>>)
  ELSE IF env.llm_raises THEN Raise(<<>>)
  ELSE LET category == extract_text_content(env.reply)
       IN Return([category |-> category],
                 <<JiraWrite("set_category", st.issue_no, category)>>)

\* ---------------------------------------------- Analyze Attachments node
\* A model reply that is meant to be a JSON object: parsed is FALSE when
\* extract_json_from_response raises, has says whether the key is there,
\* val is the key's value (None for null).
JsonReply(v) == [parsed |-> TRUE, has |-> TRUE, val |-> v]
Garbage == [parsed |-> FALSE, has |-> FALSE, val |-> None]

TransactionReplies == { JsonReply(None), JsonReply(<<"T1">>), Garbage }
OrderReplies == { JsonReply(None), JsonReply(<<"O1">>), Garbage }

AttachmentEnvs ==
  { [image_ok |-> FALSE, llm_raises |-> FALSE, reply |-> Garbage],
    [image_ok |-> TRUE, llm_raises |-> TRUE, reply |-> Garbage] }
  \cup [image_ok : {TRUE}, llm_raises : {FALSE}, reply : TransactionReplies]

analyze_attachments_node_overwrite(st, env) ==
  IF st.attachments = <<>> THEN Return(NoUpdate, <<>>)
  ELSE IF ~env.image_ok THEN Return(NoUpdate, <<>>)
  ELSE IF env.llm_raises THEN Raise(<<>>)
  ELSE IF ~env.reply.parsed THEN Return(NoUpdate, <<>>)
  ELSE LET transaction_id == IF env.reply.has THEN Or(env.reply.val, None) ELSE None
       IN IF Truthy(transaction_id)
            THEN Return([transaction_id |-> transaction_id], <<>>)
            ELSE Return(NoUpdate, <<>>)

analyze_attachments_node_unguarded(st, env) ==
  IF ~env.image_ok THEN Return(NoUpdate, <<>>)
  ELSE IF env.llm_raises THEN Raise(<<>>)
  ELSE IF ~env.reply.parsed THEN Return(NoUpdate, <<>>)
  ELSE LET transaction_id == IF env.reply.has THEN Or(env.reply.val, None) ELSE None
       IN IF Truthy(transaction_id) /\ ~Truthy(st.transaction_id)
            THEN Return([transaction_id |-> transaction_id], <<>>)
            ELSE Return(NoUpdate, <<>>)

analyze_attachments_node(st, env) ==
  IF st.attachments = <<>> THEN Return(NoUpdate, <<>>)
  ELSE IF ~env.image_ok THEN Return(NoUpdate, <<>>)
  ELSE IF env.llm_raises THEN Raise(<<>>)
  ELSE IF ~env.reply.parsed THEN Return(NoUpdate, <<>>)
  ELSE LET transaction_id == IF env.reply.has THEN Or(env.reply.val, None) ELSE None
       IN IF Truthy(transaction_id) /\ ~Truthy(st.transaction_id)
            THEN Return([transaction_id |-> transaction_id], <<>>)
            ELSE Return(NoUpdate, <<>>)

\* -------------------------------------------------- Analyze Summary node
SummaryEnvs ==
  { [llm_raises |-> TRUE, txn_reply |-> Garbage, ord_reply |-> Garbage] }
  \cup [llm_raises : {FALSE}, txn_reply : TransactionReplies, ord_reply : OrderReplies]

\* json_obj.get(key, "") after a successful parse, "" after a failed one
Extracted(reply) ==
  IF ~reply.parsed THEN <<>> ELSE IF reply.has THEN reply.val ELSE <<>>

analyze_summary_node(st, env) ==
  LET summary == Or(st.summary, <<>>)
      description == Or(st.description, <<>>)
      combined_text == Strip(summary \o <<"\n">> \o description)
      need_txn == ~Truthy(st.transaction_id)
      need_ord == ~Truthy(st.order_no)
      transaction_id == IF need_txn THEN Extracted(env.txn_reply) ELSE st.transaction_id
      order_no == IF need_ord THEN Extracted(env.ord_reply) ELSE st.order_no
      u1 == IF Truthy(transaction_id) /\ ~Truthy(st.transaction_id)
              THEN [transaction_id |-> transaction_id] ELSE NoUpdate
      u2 == IF Truthy(order_no) /\ ~Truthy(st.order_no)
              THEN ("order_no" :> order_no) @@ u1 ELSE u1
  IN IF combined_text = <<>> THEN Return(NoUpdate, <<>>)
     ELSE IF (need_txn \/ need_ord) /\ env.llm_raises THEN Raise(<<>>)
     ELSE Return(u2, <<>>)

\* ------------------------------------------------ Generate Response node
ResponseMinLen == 100

TriggerMessage == AIMessage(StrContent(<<"w92">>), <<>>)

ResponseScripts ==
  { <<FinalTurn(<<"w100">>)>>,
    <<FinalTurn(<<"w120", " ", "O1">>)>>,
    <<FinalTurn(<<"w120", " ", "T1", " ", "O1">>)>>,
    <<AIMessage(StrContent(<<"w120", " ", "T1">>), <<ToolCall("find_order", [order_no |-> <<"O1">>])>>),
      FinalTurn(<<"w120", " ", "O1", " ">>)>>,
    <<AIMessage(StrContent(<<"w120">>), <<ToolCall("find_order", [order_no |-> <<"O1">>])>>),
      FinalTurn(<<"w40">>)>> }

ResponseEnvs ==
  { [init_ok |-> FALSE, agent_raises |-> FALSE, turns |-> <<>>, world |-> OwnWorld, set_ok |-> TRUE],
    [init_ok |-> TRUE, agent_raises |-> TRUE, turns |-> <<>>, world |-> OwnWorld, set_ok |-> TRUE] }
  \cup { [init_ok |-> TRUE, agent_raises |-> FALSE, turns |-> t, world |-> OwnWorld, set_ok |-> ok] :
           t \in ResponseScripts, ok \in BOOLEAN }

RECURSIVE FindResponse_at_least(_)
FindResponse_at_least(msgs) ==
  IF msgs = <<>> THEN <<>>
  ELSE LET msg == msgs[Len(msgs)]
           content == extract_text_content(msg.content)
       IN IF msg.type = "ai" /\ ContentTruthy(msg.content)
             /\ content # <<>> /\ StrLen(content) >= ResponseMinLen
            THEN content
            ELSE FindResponse_at_least(SubSeq(msgs, 1, Len(msgs) - 1))

\* for msg in reversed(agent_messages): the text of the first assistant
\* message with content whose stripped text is longer than the threshold;
\* "" when there is none.
RECURSIVE FindResponse(_)
FindResponse(msgs) ==
  IF msgs = <<>> THEN <<>>
  ELSE LET msg == msgs[Len(msgs)]
           content == extract_text_content(msg.content)
       IN IF msg.type = "ai" /\ ContentTruthy(msg.content)
             /\ content # <<>> /\ StrLen(content) > ResponseMinLen
            THEN content
            ELSE FindResponse(SubSeq(msgs, 1, Len(msgs) - 1))

update_response_node(st, env) ==
  IF ~Truthy(st.issue_no) THEN Return(NoUpdate, <<>>)
  ELSE IF ~env.init_ok \/ env.agent_raises THEN Raise(<<>>)
  ELSE
    LET input_messages == <<TriggerMessage>>
        agent_messages == input_messages \o AgentRun(env.turns, env.world)
        response == FindResponse(agent_messages)
        u1 == IF Len(agent_messages) > Len(input_messages)
                THEN [messages |-> SubSeq(agent_messages, Len(input_messages) + 1,
                                          Len(agent_messages))]
                ELSE NoUpdate
    IN IF response = <<>> THEN Raise(<<>>)
       ELSE Return(("response" :> response) @@ u1,
                   <<JiraWrite("set_response", st.issue_no, response)>>)

\* ------------------------------------------------- rich-text documents
\* text.split('\n'): the lines between the newline characters (one line
\* more than there are newlines).
RECURSIVE SplitLines(_, _)
SplitLines(text, line) ==
  IF text = <<>> THEN <<line>>
  ELSE IF Head(text) = "\n" THEN <<line>> \o SplitLines(Tail(text), <<>>)
  ELSE SplitLines(Tail(text), Append(line, Head(text)))

Paragraph(content) == [type |-> "paragraph", content |-> content]
TextNode(text) == [type |-> "text", text |-> text]

RECURSIVE ParagraphsOf(_)
ParagraphsOf(lines) ==
  IF lines = <<>> THEN <<>>
  ELSE (IF Strip(Head(lines)) # <<>>
          THEN <<Paragraph(<<TextNode(Strip(Head(lines)))>>)>> ELSE <<>>)
       \o ParagraphsOf(Tail(lines))

_convert_text_to_adf_every_line(text) ==
  LET lines == SplitLines(text, <<>>)
  IN [version |-> 1, type |-> "doc",
      content |-> [k \in DOMAIN lines |-> Paragraph(<<TextNode(Strip(lines[k]))>>)]]

\* JiraService._convert_text_to_adf
_convert_text_to_adf(text) ==
  LET content == ParagraphsOf(SplitLines(text, <<>>))
  IN [version |-> 1, type |-> "doc",
      content |-> IF content = <<>> THEN <<Paragraph(<<>>)>> ELSE content]

\* ------------------------------------------------ memory identifiers
\* Identifiers are strings of single characters.  Alnum stands for
\* [a-zA-Z0-9]; "-", "_", "/" and ":" are the other characters the memory-id
\* pattern admits; any other character is invalid.
Alnum == { "a", "d", "i", "t", "x", "7" }
IdChars == Alnum \cup { "-", "_", "/", ":" }

\* str.replace("@", "-at-").replace(".", "-")
RECURSIVE ReplaceAtDot(_)
ReplaceAtDot(s) ==
  IF s = <<>> THEN <<>>
  ELSE (IF Head(s) = "@" THEN <<"-", "a", "t", "-">>
        ELSE IF Head(s) = "." THEN <<"-">>
        ELSE <<Head(s)>>) \o ReplaceAtDot(Tail(s))

\* re.sub(r'[^a-zA-Z0-9\-_/:]', '-', s)
SubInvalid(s) == [k \in DOMAIN s |-> IF s[k] \in IdChars THEN s[k] ELSE "-"]

_sanitize_id_always_prefix(identifier) ==
  IF ~Truthy(identifier) THEN identifier
  ELSE <<"i", "d", "-">> \o SubInvalid(ReplaceAtDot(identifier))

\* AgentCoreMemoryService._sanitize_id
_sanitize_id(identifier) ==
  IF ~Truthy(identifier) THEN identifier
  ELSE LET sanitized == SubInvalid(ReplaceAtDot(identifier))
       IN IF sanitized # <<>> /\ sanitized[1] \notin Alnum
            THEN <<"i", "d", "-">> \o sanitized
            ELSE sanitized

\* ui/app.py sanitize_actor_id: the same steps, written out a second time
sanitize_actor_id(identifier) ==
  IF ~Truthy(identifier) THEN identifier
  ELSE LET sanitized == SubInvalid(ReplaceAtDot(identifier))
       IN IF sanitized # <<>> /\ sanitized[1] \notin Alnum
            THEN <<"i", "d", "-">> \o sanitized
            ELSE sanitized

\* The memory-id pattern of the docstring,
\*   [a-zA-Z0-9][a-zA-Z0-9-_/]*(?::[a-zA-Z0-9-_/]+)*[a-zA-Z0-9-_/]*
\* matched against the whole string: MatchRest(s, need) consumes the part
\* after the first character; need says a ":" was just read, so that one
\* more character of [a-zA-Z0-9-_/] has to follow.
RECURSIVE MatchRest(_, _)
MatchRest(s, need) ==
  IF s = <<>> THEN ~need
  ELSE IF Head(s) = ":" THEN ~need /\ MatchRest(Tail(s), TRUE)
  ELSE Head(s) \in (IdChars \ {":"}) /\ MatchRest(Tail(s), FALSE)

MatchesIdPattern(s) ==
  /\ s # None
  /\ s # <<>>
  /\ Head(s) \in Alnum
  /\ MatchRest(Tail(s), FALSE)

\* ------------------------------------------------------ memory service
\* A request that reached the memory backend.
MemoryRequest(op, actorId, sessionId, payload) ==
  [op |-> op, actorId |-> actorId, sessionId |-> sessionId, payload |-> payload]

\* What a call of the memory service or of the middleware hook produced:
\* whether it raised, what it returned, and the backend requests it made.
Outcome(raised, ret, calls) == [raised |-> raised, ret |-> ret, calls |-> calls]

\* How the backend answers a request: with a response of one of three
\* shapes, with a botocore ClientError, or with some other exception.
BackendOk == { "event", "flat", "text" }
Backends == BackendOk \cup { "client_error", "error" }

BackendResponse(b) ==
  CASE b = "event" -> [isDict |-> TRUE, event |-> <<"e1">>, eventId |-> None]
    [] b = "flat" -> [isDict |-> TRUE, event |-> None, eventId |-> <<"e1">>]
    [] OTHER -> [isDict |-> FALSE, event |-> None, eventId |-> None]

\* str.upper() on a role name
Upper(role) ==
  CASE role = "user" -> "USER"
    [] role = "assistant" -> "ASSISTANT"
    [] role = "tool" -> "TOOL"
    [] OTHER -> role

Payload(messages) ==
  [k \in DOMAIN messages |->
     [conversational |-> [content |-> [text |-> messages[k].content],
                          role |-> Upper(messages[k].role)]]]

\* AgentCoreMemoryService.create_event
create_event(actor_id, session_id, messages, b) ==
  IF ~Truthy(actor_id) \/ ~Truthy(session_id) THEN Outcome(TRUE, None, <<>>)
  ELSE IF messages = <<>> THEN Outcome(TRUE, None, <<>>)
  ELSE LET request == MemoryRequest("create_event", _sanitize_id(actor_id),
                                    _sanitize_id(session_id), Payload(messages))
       IN IF b \in BackendOk
            THEN Outcome(FALSE, BackendResponse(b), <<request>>)
            ELSE Outcome(TRUE, None, <<request>>)

\* AgentCoreMemoryService.list_events
list_events(actor_id, session_id, max_results, b) ==
  IF ~Truthy(actor_id) \/ ~Truthy(session_id) THEN Outcome(TRUE, None, <<>>)
  ELSE IF max_results < 1 \/ max_results > 100 THEN Outcome(TRUE, None, <<>>)
  ELSE LET request == MemoryRequest("list_events", actor_id, session_id, <<>>)
       IN IF b \in BackendOk
            THEN Outcome(FALSE, BackendResponse(b), <<request>>)
            ELSE Outcome(TRUE, None, <<request>>)

\* --------------------------------------------------- memory middleware
SystemMessage(s) == [type |-> "system", content |-> StrContent(s), tool_calls |-> <<>>,
                     name |-> "", args |-> NoArgs, result |-> NoArgs]

\* " ".join(text_parts) over the text blocks of a content list
RECURSIVE JoinText(_)
JoinText(blocks) ==
  IF blocks = <<>> THEN <<>>
  ELSE IF ~Head(blocks).hasText THEN JoinText(Tail(blocks))
  ELSE IF \E k \in DOMAIN Tail(blocks) : Tail(blocks)[k].hasText
    THEN Head(blocks).text \o <<" ">> \o JoinText(Tail(blocks))
    ELSE Head(blocks).text

_convert_message_to_memory_format_keep_system(message) ==
  LET content == IF ~message.content.isList THEN message.content.text
                 ELSE JoinText(message.content.blocks)
  IN CASE message.type = "human" -> [role |-> "USER", content |-> content]
       [] message.type = "ai" -> [role |-> "ASSISTANT", content |-> content]
       [] message.type = "tool" -> [role |-> "TOOL", content |-> content]
       [] OTHER -> [role |-> "SYSTEM", content |-> content]

\* (role, content) of a message; role "" stands for (None, None)
_convert_message_to_memory_format(message) ==
  LET content == IF ~message.content.isList THEN message.content.text
                 ELSE IF \E k \in DOMAIN message.content.blocks :
                           message.content.blocks[k].hasText
                   THEN JoinText(message.content.blocks)
                   ELSE None
  IN IF ~Truthy(content) THEN [role |-> "", content |-> None]
     ELSE CASE message.type = "human" -> [role |-> "USER", content |-> content]
            [] message.type = "ai" -> [role |-> "ASSISTANT", content |-> content]
            [] message.type = "tool" -> [role |-> "TOOL", content |-> content]
            [] OTHER -> [role |-> "", content |-> None]

\* AgentCoreMemoryMiddleware.__init__: the service exists only when a
\* memory id is configured and its client could be built.
Middleware(agentcore_memory_id, service_ok, actor_id, session_id) ==
  [memory_service |-> Truthy(agentcore_memory_id) /\ service_ok,
   actor_id |-> actor_id, session_id |-> session_id]

MemoryWindow == 10

RECURSIVE LastUserIdx(_)
LastUserIdx(messages) ==
  IF messages = <<>> THEN 0
  ELSE IF messages[Len(messages)].type = "human" THEN Len(messages)
  ELSE LastUserIdx(SubSeq(messages, 1, Len(messages) - 1))

RECURSIVE Converted(_)
Converted(messages) ==
  IF messages = <<>> THEN <<>>
  ELSE LET c == _convert_message_to_memory_format(Head(messages))
       IN (IF c.role # "" /\ Truthy(c.content) THEN <<c>> ELSE <<>>)
          \o Converted(Tail(messages))

after_model_propagates(mw, st, runtime, b) ==
  IF ~mw.memory_service THEN Outcome(FALSE, None, <<>>)
  ELSE
    LET actor_id == Or(Or(mw.actor_id, runtime.actor_id), st.customer_email)
        session_id == Or(Or(mw.session_id, runtime.thread_id), st.issue_no)
        conversation_messages == Converted(st.messages)
        stored == create_event(actor_id, session_id, conversation_messages, b)
    IN IF ~Truthy(actor_id) \/ ~Truthy(session_id) THEN Outcome(FALSE, None, <<>>)
       ELSE Outcome(stored.raised, None, stored.calls)

\* AgentCoreMemoryMiddleware.after_model on agent state st; runtime holds
\* the configurable values the runtime exposes (None where it has none).
after_model(mw, st, runtime, b) ==
  IF ~mw.memory_service THEN Outcome(FALSE, None, <<>>)
  ELSE
    LET actor_id == Or(Or(mw.actor_id, runtime.actor_id), st.customer_email)
        session_id == Or(Or(mw.session_id, runtime.thread_id), st.issue_no)
        messages == st.messages
        last_user_idx == LastUserIdx(messages)
        messages_to_process ==
          IF last_user_idx >= 1 THEN SubSeq(messages, last_user_idx, Len(messages))
          ELSE IF Len(messages) >= MemoryWindow
            THEN SubSeq(messages, Len(messages) - MemoryWindow + 1, Len(messages))
            ELSE messages
        conversation_messages == Converted(messages_to_process)
    IN IF ~Truthy(actor_id) \/ ~Truthy(session_id) THEN Outcome(FALSE, None, <<>>)
       ELSE IF messages = <<>> THEN Outcome(FALSE, None, <<>>)
       ELSE IF conversation_messages = <<>> THEN Outcome(FALSE, None, <<>>)
       ELSE Outcome(FALSE, None,
                    create_event(actor_id, session_id, conversation_messages, b).calls)

\* --------------------------------------------------------------- router
route_after_conversation_always_collect(st) == "Collect Customer Information"

route_after_conversation(st) ==
  IF ~Truthy(st.issue_no) THEN "Collect Customer Information" ELSE "END"

route_after_collect_info_gate_email(st) ==
  IF Truthy(st.customer_email) THEN "Fetch Issue Details" ELSE "END"

route_after_collect_info(st) ==
  IF Truthy(st.issue_no) THEN "Fetch Issue Details" ELSE "END"

TriageEdge_skip_attachments(n) ==
  CASE n = "Fetch Issue Details" -> "Assign Support Contact"
    [] n = "Assign Support Contact" -> "Determine Category"
    [] n = "Determine Category" -> "Analyze Summary"
    [] n = "Analyze Attachments" -> "Analyze Summary"
    [] n = "Analyze Summary" -> "Generate Response"
    [] n = "Generate Response" -> "END"

\* builder.add_edge: the unconditional edges of the triage sequence
TriageEdge(n) ==
  CASE n = "Fetch Issue Details" -> "Assign Support Contact"
    [] n = "Assign Support Contact" -> "Determine Category"
    [] n = "Determine Category" -> "Analyze Attachments"
    [] n = "Analyze Attachments" -> "Analyze Summary"
    [] n = "Analyze Summary" -> "Generate Response"
    [] n = "Generate Response" -> "END"

\* ---------------------------------------------------------------- graph
VARIABLES state, pc, trace, last, jira_writes, run
vars == <<state, pc, trace, last, jira_writes, run>>

UserMessage == HumanMessage(<<"a@x", " ", "AS-1">>)

NoCall == [node |-> "", raised |-> FALSE, update |-> NoUpdate, env |-> NoArgs]

Init ==
  /\ state = FreshState(<<UserMessage>>)
  /\ pc = "START"
  /\ trace = <<>>
  /\ last = NoCall
  /\ jira_writes = <<>>
  /\ run = 1

\* One superstep: the node at pc runs on the current state; its update is
\* merged and the outgoing edge chosen, or its exception ends the run.
Apply(n, env, out, nxt) ==
  /\ last' = [node |-> n, raised |-> out.raised, update |-> out.update, env |-> env]
  /\ jira_writes' = jira_writes \o out.writes
  /\ trace' = Append(trace, n)
  /\ state' = IF out.raised THEN state ELSE Merge(state, out.update)
  /\ pc' = IF out.raised THEN "RAISED" ELSE nxt
  /\ UNCHANGED run

EnterGraph ==
  /\ pc = "START"
  /\ pc' = "Customer Conversation"
  /\ UNCHANGED <<state, trace, last, jira_writes, run>>

CustomerConversation ==
  /\ pc = "Customer Conversation"
  /\ \E env \in ConversationEnvs :
       LET out == customer_conversation_node(state, env)
       IN Apply("Customer Conversation", env, out,
                route_after_conversation(Merge(state, out.update)))

CollectCustomerInformation ==
  /\ pc = "Collect Customer Information"
  /\ \E env \in CollectEnvs :
       LET out == collect_customer_information_node(state, env)
       IN Apply("Collect Customer Information", env, out,
                route_after_collect_info(Merge(state, out.update)))

FetchIssueDetails ==
  /\ pc = "Fetch Issue Details"
  /\ \E env \in FetchEnvs(MaxAttachments) :
       Apply("Fetch Issue Details", env, fetch_issue_details_node(state, env),
             TriageEdge("Fetch Issue Details"))

AssignSupportContact ==
  /\ pc = "Assign Support Contact"
  /\ \E env \in AssignEnvs :
       Apply("Assign Support Contact", env, update_assignee_node(state, env),
             TriageEdge("Assign Support Contact"))

DetermineCategory ==
  /\ pc = "Determine Category"
  /\ \E env \in CategoryEnvs :
       Apply("Determine Category", env, update_category_node(state, env),
             TriageEdge("Determine Category"))

AnalyzeAttachments ==
  /\ pc = "Analyze Attachments"
  /\ \E env \in AttachmentEnvs :
       Apply("Analyze Attachments", env, analyze_attachments_node(state, env),
             TriageEdge("Analyze Attachments"))

AnalyzeSummary ==
  /\ pc = "Analyze Summary"
  /\ \E env \in SummaryEnvs :
       Apply("Analyze Summary", env, analyze_summary_node(state, env),
             TriageEdge("Analyze Summary"))

GenerateResponse ==
  /\ pc = "Generate Response"
  /\ \E env \in ResponseEnvs :
       Apply("Generate Response", env, update_response_node(state, env),
             TriageEdge("Generate Response"))

\* The same thread receives its next user message: the checkpointed state
\* is kept and a new run starts.
NewRun ==
  /\ pc \in {"END", "RAISED"}
  /\ run < MaxRuns
  /\ run' = run + 1
  /\ state' = [state EXCEPT !.messages = Append(@, UserMessage)]
  /\ pc' = "START"
  /\ trace' = <<>>
  /\ last' = NoCall
  /\ UNCHANGED jira_writes

Next ==
  \/ EnterGraph
  \/ CustomerConversation
  \/ CollectCustomerInformation
  \/ FetchIssueDetails
  \/ AssignSupportContact
  \/ DetermineCategory
  \/ AnalyzeAttachments
  \/ AnalyzeSummary
  \/ GenerateResponse
  \/ NewRun

Spec == Init /\ [][Next]_vars

\* The graph runtime always runs the next scheduled node; only the arrival
\* of another user message is left to the user.
GraphStep ==
  \/ EnterGraph
  \/ CustomerConversation
  \/ CollectCustomerInformation
  \/ FetchIssueDetails
  \/ AssignSupportContact
  \/ DetermineCategory
  \/ AnalyzeAttachments
  \/ AnalyzeSummary
  \/ GenerateResponse

LiveSpec == Init /\ [][Next]_vars /\ WF_vars(GraphStep)

\* ------------------------------------------- nodes as functions of state
\* Each node is also a function (state, config) -> update that can be
\* handed any CustomerSupportState.  NodeSpec calls one node once on a
\* state drawn from AnyStates; the issue it fetches may carry one
\* attachment more than in the runs of the graph.
AnyStates ==
  { [FreshState(<<UserMessage>>) EXCEPT
       !.issue_no = i, !.customer_email = e, !.transaction_id = t, !.order_no = o,
       !.attachments = a, !.summary = sm] :
      i \in { None, <<"AS-1">> }, e \in { None, <<"a@x">> },
      t \in { None, <<>>, <<"T2">> }, o \in { None, <<"O2">> },
      a \in { <<>>, << <<"AS-1", "-", "file">> >> }, sm \in { None, <<"w40">> } }

NodeInit ==
  /\ state \in AnyStates
  /\ pc = "CALL"
  /\ trace = <<>>
  /\ last = NoCall
  /\ jira_writes = <<>>
  /\ run = 1

Call(n, env, out) == pc = "CALL" /\ Apply(n, env, out, "RETURNED")

CallCustomerConversation ==
  \E env \in ConversationEnvs :
    Call("Customer Conversation", env, customer_conversation_node(state, env))
CallCollectCustomerInformation ==
  \E env \in CollectEnvs :
    Call("Collect Customer Information", env, collect_customer_information_node(state, env))
CallFetchIssueDetails ==
  \E env \in FetchEnvs(MaxAttachments + 1) :
    Call("Fetch Issue Details", env, fetch_issue_details_node(state, env))
CallAssignSupportContact ==
  \E env \in AssignEnvs :
    Call("Assign Support Contact", env, update_assignee_node(state, env))
CallDetermineCategory ==
  \E env \in CategoryEnvs :
    Call("Determine Category", env, update_category_node(state, env))
CallAnalyzeAttachments ==
  \E env \in AttachmentEnvs :
    Call("Analyze Attachments", env, analyze_attachments_node(state, env))
CallAnalyzeSummary ==
  \E env \in SummaryEnvs :
    Call("Analyze Summary", env, analyze_summary_node(state, env))
CallGenerateResponse ==
  \E env \in ResponseEnvs :
    Call("Generate Response", env, update_response_node(state, env))

NodeNext ==
  \/ CallCustomerConversation
  \/ CallCollectCustomerInformation
  \/ CallFetchIssueDetails
  \/ CallAssignSupportContact
  \/ CallDetermineCategory
  \/ CallAnalyzeAttachments
  \/ CallAnalyzeSummary
  \/ CallGenerateResponse

NodeSpec == NodeInit /\ [][NodeNext]_vars

\* -------------------------------------------- memory calls on their own
\* MemorySpec calls the middleware hook or the memory service once, on an
\* agent state drawn from AgentStates.
EmailId == <<"a", "@", "x", ".", "d">>
ThreadId == <<"t", "7">>
RawIds == { None, <<>>, EmailId, ThreadId, <<":", "t">> }

AgentMessages ==
  { <<>>,
    <<UserMessage>>,
    <<UserMessage, ValidateTurn(<<"a@x">>, <<"AS-1">>),
      ToolMessage("find_customer", [email |-> <<"a@x">>], NoArgs),
      AIMessage(ListContent(<<TextBlock(<<"w40">>), ToolUseBlock, TextBlock(<<"w40">>)>>), <<>>)>>,
    <<SystemMessage(<<"w40">>), AIMessage(ListContent(<<ToolUseBlock>>), <<>>)>>,
    <<SystemMessage(<<"w40">>), FinalTurn(<<"w40">>)>>,
    [k \in 1..(MemoryWindow + 1) |-> FinalTurn(<<"w40">>)] }

AgentStates ==
  [messages : AgentMessages, customer_email : { None, EmailId }, issue_no : { None, <<"a", "-", "7">> }]

Middlewares ==
  { Middleware(None, TRUE, None, None), Middleware(<<"mem">>, FALSE, EmailId, ThreadId) }
  \cup { Middleware(<<"mem">>, TRUE, a, t) :
           a \in { None, EmailId, sanitize_actor_id(EmailId) }, t \in { None, ThreadId } }

Runtimes == { [actor_id |-> None, thread_id |-> None],
              [actor_id |-> sanitize_actor_id(EmailId), thread_id |-> ThreadId] }

MemoryInit ==
  /\ state \in AgentStates
  /\ pc = "CALL"
  /\ trace = <<>>
  /\ last = NoCall
  /\ jira_writes = <<>>
  /\ run = 1

MemoryCall(op, env, out) ==
  /\ pc = "CALL"
  /\ pc' = "RETURNED"
  /\ last' = [node |-> op, raised |-> out.raised, update |-> out.ret, env |-> env,
              calls |-> out.calls]
  /\ UNCHANGED <<state, trace, jira_writes, run>>

AfterModel ==
  \E mw \in Middlewares, runtime \in Runtimes, b \in Backends :
    MemoryCall("after_model", [mw |-> mw, runtime |-> runtime, backend |-> b],
               after_model(mw, state, runtime, b))

CreateEvent ==
  \E a \in RawIds, t \in RawIds, b \in Backends :
    MemoryCall("create_event", [actor_id |-> a, session_id |-> t, backend |-> b],
               create_event(a, t, Converted(state.messages), b))

ListEvents ==
  \E a \in RawIds, t \in RawIds, n \in { 0, 10, 101 }, b \in Backends :
    MemoryCall("list_events", [actor_id |-> a, session_id |-> t, max_results |-> n, backend |-> b],
               list_events(a, t, n, b))

\* The middleware a node builds for its agent: Customer Conversation and
\* Collect Customer Information hand it the caller's configurable actor_id
\* and thread_id, Generate Response the state's customer_email and issue_no.
NodeMiddleware(node, st, config) ==
  IF node = "Generate Response"
    THEN Middleware(<<"mem">>, TRUE, st.customer_email, st.issue_no)
    ELSE Middleware(<<"mem">>, TRUE, config.actor_id, config.thread_id)

\* after_model inside the agent loop of a workflow node.  The workflow
\* state supplies customer_email and issue_no; the agent's own state holds
\* the messages only; the runtime exposes the caller's configurable values
\* or nothing.  A node builds its agent only on the states on which it does
\* not return early.
NodeAfterModel ==
  \E node \in {"Customer Conversation", "Collect Customer Information", "Generate Response"},
     config \in Runtimes, exposed \in BOOLEAN, b \in Backends :
    /\ node = "Collect Customer Information" =>
          ~(Truthy(state.customer_email) /\ Truthy(state.issue_no))
    /\ node # "Collect Customer Information" => Truthy(state.issue_no)
    /\ LET mw == NodeMiddleware(node, state, config)
           runtime == IF exposed THEN config ELSE [actor_id |-> None, thread_id |-> None]
       IN MemoryCall("after_model",
                     [mw |-> mw, runtime |-> runtime, backend |-> b,
                      workflow_node |-> node, config |-> config],
                     after_model(mw, [messages |-> state.messages, customer_email |-> None,
                                      issue_no |-> None], runtime, b))

MemoryNext ==
  \/ AfterModel
  \/ NodeAfterModel
  \/ CreateEvent
  \/ ListEvents

MemorySpec == MemoryInit /\ [][MemoryNext]_vars

\* ------------------------------------------------- tools on their own
\* ToolSpec calls one tool once.  The worlds are those an agent loop can
\* meet: each node that builds an agent calls
\* initialize_customer_validation_tools first and raises itself when that
\* fails, so the tools are configured and the MCP service exists.
ToolWorlds ==
  { [World(r, m, t) EXCEPT !.jira_service_ok = j] :
      r \in { <<"a@x">>, <<"b@y">> }, m \in { "dict", "json", "text", "other", "fail" },
      t \in { "ok", "fail" }, j \in BOOLEAN }

\* The arguments a model may pass: none, empty ones, and keys the store
\* or the tracker does or does not know.
ToolArgs(name) ==
  CASE name = "find_customer" ->
         { NoArgs, [email |-> <<>>], [email |-> <<"a@x">>], [email |-> <<"b@y">>],
           [customer_id |-> <<"c1">>] }
    [] name = "find_transaction" ->
         { NoArgs, [transaction_id |-> <<>>], [transaction_id |-> <<"T1">>] }
    [] name = "get_jira_field_value" ->
         { NoArgs, [issue_key |-> <<"AS-1">>],
           [issue_key |-> <<"AS-1">>, field_name |-> <<"reporter">>],
           [issue_key |-> <<"AS-9">>, field_name |-> <<"reporter">>],
           [issue_key |-> <<"AS-1">>, field_name |-> <<"customfield">>] }
    [] OTHER -> { NoArgs, [order_no |-> <<>>], [order_no |-> <<"O1">>] }

ToolInit ==
  /\ state \in ToolWorlds
  /\ pc = "CALL"
  /\ trace = <<>>
  /\ last = NoCall
  /\ jira_writes = <<>>
  /\ run = 1

ToolCalled(name, args) ==
  LET out == CallTool(ToolCall(name, args), state)
  IN /\ pc = "CALL"
     /\ pc' = "RETURNED"
     /\ last' = [node |-> name, raised |-> out.raised, update |-> out.result,
                 env |-> [args |-> args], contacted |-> out.contacted]
     /\ UNCHANGED <<state, trace, jira_writes, run>>

CallFindCustomer == \E args \in ToolArgs("find_customer") : ToolCalled("find_customer", args)
CallFindOrder == \E args \in ToolArgs("find_order") : ToolCalled("find_order", args)
CallFindTransaction ==
  \E args \in ToolArgs("find_transaction") : ToolCalled("find_transaction", args)
CallGetTransactionForOrder ==
  \E args \in ToolArgs("get_transaction_for_order") : ToolCalled("get_transaction_for_order", args)
CallGetRefundForOrder ==
  \E args \in ToolArgs("get_refund_for_order") : ToolCalled("get_refund_for_order", args)
CallGetJiraFieldValue ==
  \E args \in ToolArgs("get_jira_field_value") : ToolCalled("get_jira_field_value", args)

ToolNext ==
  \/ CallFindCustomer
  \/ CallFindOrder
  \/ CallFindTransaction
  \/ CallGetTransactionForOrder
  \/ CallGetRefundForOrder
  \/ CallGetJiraFieldValue

ToolSpec == ToolInit /\ [][ToolNext]_vars

\* ------------------------------------------- sanitisation on its own
\* SanitizeSpec applies one of the two sanitisers once to an identifier of
\* at most MaxIdLen characters: letters and digits, the characters the
\* sanitiser rewrites, the other characters of the pattern, and characters
\* outside it (a blank, a hash sign).
Identifiers ==
  { None }
  \cup UNION { [1..n -> { "a", "7", "@", ".", "-", "_", "/", ":", " ", "#" }] : n \in 0..MaxIdLen }

SanitizeInit ==
  /\ state \in Identifiers
  /\ pc = "CALL"
  /\ trace = <<>>
  /\ last = NoCall
  /\ jira_writes = <<>>
  /\ run = 1

SanitizeId ==
  /\ pc = "CALL"
  /\ pc' = "RETURNED"
  /\ last' = [node |-> "_sanitize_id", raised |-> FALSE, update |-> _sanitize_id(state),
              env |-> [identifier |-> state]]
  /\ UNCHANGED <<state, trace, jira_writes, run>>

SanitizeActorId ==
  /\ pc = "CALL"
  /\ pc' = "RETURNED"
  /\ last' = [node |-> "sanitize_actor_id", raised |-> FALSE,
              update |-> sanitize_actor_id(state), env |-> [identifier |-> state]]
  /\ UNCHANGED <<state, trace, jira_writes, run>>

SanitizeNext ==
  \/ SanitizeId
  \/ SanitizeActorId

SanitizeSpec == SanitizeInit /\ [][SanitizeNext]_vars

\* ------------------------------------------ text conversion on its own
\* AdfSpec converts one plain text of at most MaxTextLen tokens: words,
\* blanks, tabs and newlines.
Texts == UNION { [1..n -> { "w40", "T1", " ", "\t", "\n" }] : n \in 0..MaxTextLen }

AdfInit ==
  /\ state \in Texts
  /\ pc = "CALL"
  /\ trace = <<>>
  /\ last = NoCall
  /\ jira_writes = <<>>
  /\ run = 1

ConvertTextToAdf ==
  /\ pc = "CALL"
  /\ pc' = "RETURNED"
  /\ last' = [node |-> "_convert_text_to_adf", raised |-> FALSE,
              update |-> _convert_text_to_adf(state), env |-> [text |-> state]]
  /\ UNCHANGED <<state, trace, jira_writes, run>>

AdfNext == ConvertTextToAdf

AdfSpec == AdfInit /\ [][AdfNext]_vars

\* ------------------------------------------------ two runs in one process
\* tools/database.py and tools/jira.py keep their configuration and their
\* service in module globals, which every run of the process shares.
\* ConcurrentSpec interleaves MaxConcurrentRuns runs, for different
\* customers and issues, at node and tool-call boundaries.  state, pc and
\* trace hold one entry
\* per run; trace[r] starts with the input the run was invoked on and then
\* records, for each node that returned, what its environment supplied and
\* which globals its tool calls read; last holds the module globals:
\* current_config / jira_config say whether _current_config is set,
\* mcp_service / jira_service name the run whose initialisation created
\* the instance (0 for None); jira_writes is the one tracker both runs
\* write to.  Every run reads the same process environment, so the
\* instances differ only in who created them.
RunIds == 1..MaxConcurrentRuns

\* Each run has its own customer and its own issue; the store and the
\* tracker know those of the first run.
Identity(r) ==
  IF r = 1 THEN [email |-> <<"a@x">>, issue |-> <<"AS-1">>]
  ELSE [email |-> <<"u" \o ToString(r) \o "@y">>, issue |-> <<"AS-" \o ToString(r)>>]

NoModuleState ==
  [current_config |-> FALSE, mcp_service |-> 0, jira_config |-> FALSE, jira_service |-> 0]

\* stage: where a failing initialisation fails, before the service is
\* created ("config") or while the tools are loaded from it ("load").
initialize_customer_validation_tools_reset_on_failure(m, r, ok, stage) ==
  IF ok THEN [m EXCEPT !.current_config = TRUE, !.mcp_service = r]
  ELSE [m EXCEPT !.current_config = FALSE, !.mcp_service = 0]

initialize_customer_validation_tools(m, r, ok, stage) ==
  IF ~ok /\ stage = "config" THEN [m EXCEPT !.current_config = TRUE]
  ELSE [m EXCEPT !.current_config = TRUE, !.mcp_service = r]

initialize_jira_tools(m, r) ==
  [m EXCEPT !.jira_config = TRUE,
            !.jira_service = IF m.jira_service = 0 THEN r ELSE m.jira_service]

\* The initialisation the node named n performs before anything else
\* (Generate Response only after its issue_no check).
InitializeTools(n, st, m, r, ok, stage) ==
  CASE n = "Customer Conversation" -> initialize_customer_validation_tools(m, r, ok, stage)
    [] n = "Collect Customer Information" ->
         IF ok THEN initialize_jira_tools(initialize_customer_validation_tools(m, r, ok, stage), r)
         ELSE initialize_customer_validation_tools(m, r, ok, stage)
    [] n = "Generate Response" ->
         IF Truthy(st.issue_no) THEN initialize_customer_validation_tools(m, r, ok, stage)
         ELSE m
    [] OTHER -> m

\* _get_mcp_service and _get_jira_service: what a tool call finds in the
\* globals it read.  A missing service is created from the stored
\* configuration.
SeenWorld(seen) ==
  [OwnWorld EXCEPT !.configured = seen.current_config,
                   !.service = seen.mcp_service # 0,
                   !.jira_service_ok = seen.jira_config]

AgentNodes == { "Customer Conversation", "Collect Customer Information", "Generate Response" }

\* Whether the node reaches agent.invoke.
RunsAgent(n, st, env) ==
  CASE n = "Customer Conversation" -> env.init_ok /\ Truthy(st.issue_no) /\ ~env.agent_raises
    [] n = "Collect Customer Information" ->
         env.init_ok /\ ~(Truthy(st.customer_email) /\ Truthy(st.issue_no)) /\ ~env.agent_raises
    [] n = "Generate Response" -> Truthy(st.issue_no) /\ env.init_ok /\ ~env.agent_raises
    [] OTHER -> FALSE

NodeFunction(n, st, env) ==
  CASE n = "Customer Conversation" -> customer_conversation_node(st, env)
    [] n = "Collect Customer Information" -> collect_customer_information_node(st, env)
    [] n = "Fetch Issue Details" -> fetch_issue_details_node(st, env)
    [] n = "Assign Support Contact" -> update_assignee_node(st, env)
    [] n = "Determine Category" -> update_category_node(st, env)
    [] n = "Analyze Attachments" -> analyze_attachments_node(st, env)
    [] n = "Analyze Summary" -> analyze_summary_node(st, env)
    [] n = "Generate Response" -> update_response_node(st, env)

RouteAfter(n, st) ==
  CASE n = "Customer Conversation" -> route_after_conversation(st)
    [] n = "Collect Customer Information" -> route_after_collect_info(st)
    [] OTHER -> TriageEdge(n)

\* What the environment supplies to run r at node n: an initialisation that
\* succeeds or fails, a model that validates and records the run's own
\* pair, looks the customer or the order up, and answers; a tracker and a
\* model that answer the triage nodes.  A loop makes at most one call to
\* each backend.
ConcurrentEnvs(n, r) ==
  CASE n = "Customer Conversation" ->
         { [init_ok |-> ok, agent_raises |-> FALSE, world |-> OwnWorld,
            turns |-> <<AIMessage(StrContent(<<>>),
                                  <<ToolCall("find_customer", [email |-> Identity(r).email])>>),
                        FinalTurn(<<"w40">>)>>] : ok \in BOOLEAN }
    [] n = "Collect Customer Information" ->
         { [init_ok |-> ok, agent_raises |-> FALSE, world |-> OwnWorld, db |-> "found",
            turns |-> <<ValidateTurn(Identity(r).email, Identity(r).issue),
                        RecordTurn(Identity(r).email, Identity(r).issue),
                        FinalTurn(<<"w40">>)>>] : ok \in BOOLEAN }
    [] n = "Fetch Issue Details" ->
         { e \in FetchEnvs(1) :
             e.issue.found /\ e.issue.summary # None /\ e.download_ok = <<TRUE>> }
    [] n = "Assign Support Contact" -> { [jira_assignee_username |-> <<"bot">>, assign_ok |-> TRUE] }
    [] n = "Determine Category" ->
         { [llm_raises |-> FALSE, reply |-> StrContent(<<"Billing">>), set_ok |-> TRUE] }
    [] n = "Analyze Attachments" ->
         { [image_ok |-> TRUE, llm_raises |-> FALSE, reply |-> JsonReply(<<"T1">>)] }
    [] n = "Analyze Summary" ->
         { [llm_raises |-> FALSE, txn_reply |-> JsonReply(None), ord_reply |-> JsonReply(<<"O1">>)] }
    [] n = "Generate Response" ->
         { [init_ok |-> ok, agent_raises |-> FALSE, world |-> OwnWorld, set_ok |-> TRUE,
            turns |-> <<AIMessage(StrContent(<<"w120", " ", "T1">>),
                                  <<ToolCall("find_order", [order_no |-> <<"O1">>])>>),
                        FinalTurn(<<"w120", " ", "O1", " ">>)>>] : ok \in BOOLEAN }

\* A run starts on a new thread or on one whose customer and issue are
\* already known.
StartState(r, known) ==
  LET fresh == FreshState(<<HumanMessage(<<Identity(r).email, " ", Identity(r).issue>>)>>)
  IN IF known
       THEN [fresh EXCEPT !.customer_email = Identity(r).email, !.issue_no = Identity(r).issue]
       ELSE fresh

\* Where a run is: about to enter a node, inside the node's agent loop
\* (k turns produced, calls still to execute, seen: the globals as its tool
\* calls read them), or over.
Enter(n) ==
  [node |-> n, phase |-> IF n \in {"END", "RAISED"} THEN "done" ELSE "enter",
   env |-> NoArgs, k |-> 0, calls |-> <<>>, seen |-> NoModuleState]

ConcurrentInit ==
  /\ \E known \in [RunIds -> BOOLEAN] : state = [r \in RunIds |-> StartState(r, known[r])]
  /\ pc = [r \in RunIds |-> Enter("Customer Conversation")]
  /\ trace = [r \in RunIds |-> << [node |-> "START", env |-> [input |-> state[r]],
                                   seen |-> NoModuleState] >>]
  /\ last = NoModuleState
  /\ jira_writes = <<>>
  /\ run = MaxConcurrentRuns

\* The node returns (or raises): its update is merged into the run's own
\* state, its tracker calls reach the tracker, the next node is scheduled.
Finish(r, n, env, seen, out) ==
  LET merged == Merge(state[r], out.update)
  IN /\ state' = [state EXCEPT ![r] = IF out.raised THEN @ ELSE merged]
     /\ pc' = [pc EXCEPT ![r] = IF out.raised THEN Enter("RAISED")
                                ELSE Enter(RouteAfter(n, merged))]
     /\ trace' = [trace EXCEPT ![r] = Append(@, [node |-> n, env |-> env, seen |-> seen])]
     /\ jira_writes' = jira_writes \o out.writes
     /\ UNCHANGED run

\* A node that builds an agent starts: it initialises the tool modules and
\* either returns at once or enters the agent loop.
BeginNode(r) ==
  LET n == pc[r].node
  IN /\ pc[r].phase = "enter"
     /\ n \in AgentNodes
     /\ \E env \in ConcurrentEnvs(n, r), stage \in {"config", "load"} :
          LET m == InitializeTools(n, state[r], last, r, env.init_ok, stage)
          IN /\ last' = m
             /\ IF RunsAgent(n, state[r], env)
                  THEN /\ pc' = [pc EXCEPT ![r].phase = "loop", ![r].env = env, ![r].seen = m]
                       /\ UNCHANGED <<state, trace, jira_writes, run>>
                  ELSE Finish(r, n, env, m, NodeFunction(n, state[r], env))

LoopOver(p) ==
  /\ p.calls = <<>>
  /\ \/ p.k = Len(p.env.turns)
     \/ p.k > 0 /\ p.env.turns[p.k].tool_calls = <<>>

\* The model produces the loop's next turn.
ModelTurn(r) ==
  /\ pc[r].phase = "loop"
  /\ pc[r].calls = <<>>
  /\ ~LoopOver(pc[r])
  /\ pc' = [pc EXCEPT ![r].k = @ + 1, ![r].calls = pc[r].env.turns[pc[r].k + 1].tool_calls]
  /\ UNCHANGED <<state, trace, last, jira_writes, run>>

\* The loop executes the next tool call of the turn, which reads the
\* globals of its module as they are now.
ToolStep(r) ==
  /\ pc[r].phase = "loop"
  /\ pc[r].calls # <<>>
  /\ LET name == Head(pc[r].calls).name
         seen == CASE name = "get_jira_field_value" ->
                        [pc[r].seen EXCEPT !.jira_config = last.jira_config,
                                           !.jira_service = last.jira_service]
                   [] name = "record_customer_info" -> pc[r].seen
                   [] OTHER ->
                        [pc[r].seen EXCEPT !.current_config = last.current_config,
                                           !.mcp_service = last.mcp_service]
     IN pc' = [pc EXCEPT ![r].calls = Tail(@), ![r].seen = seen]
  /\ UNCHANGED <<state, trace, last, jira_writes, run>>

\* agent.invoke returns and the node builds its update from the result.
EndNode(r) ==
  /\ pc[r].phase = "loop"
  /\ LoopOver(pc[r])
  /\ Finish(r, pc[r].node, pc[r].env, pc[r].seen,
            NodeFunction(pc[r].node, state[r],
                         [pc[r].env EXCEPT !.world = SeenWorld(pc[r].seen)]))
  /\ UNCHANGED last

\* A triage node that builds no agent runs in one step.
PlainNode(r) ==
  /\ pc[r].phase = "enter"
  /\ pc[r].node \notin AgentNodes
  /\ \E env \in ConcurrentEnvs(pc[r].node, r) :
       Finish(r, pc[r].node, env, NoModuleState, NodeFunction(pc[r].node, state[r], env))
  /\ UNCHANGED last

\* Any run takes its next step.
ConcurrentNext ==
  \E r \in RunIds :
    \/ BeginNode(r)
    \/ ModelTurn(r)
    \/ ToolStep(r)
    \/ EndNode(r)
    \/ PlainNode(r)

ConcurrentSpec == ConcurrentInit /\ [][ConcurrentNext]_vars

\* ================================================================ claims
Chain ==
  << "Customer Conversation", "Collect Customer Information", "Fetch Issue Details",
     "Assign Support Contact", "Determine Category", "Analyze Attachments",
     "Analyze Summary", "Generate Response" >>

IsPrefix(s, t) == Len(s) <= Len(t) /\ SubSeq(t, 1, Len(s)) = s

CollectReturned ==
  /\ Len(trace) >= 2
  /\ trace[2] = "Collect Customer Information"
  /\ ~(Len(trace) = 2 /\ last.raised)

\* C1: in a run in which issue_no is absent when Collect Customer
\* Information returns, the run is at END right after that node and no
\* triage node has executed.
C1_NoTriageWithoutIssue ==
  (CollectReturned /\ ~Truthy(state.issue_no)) =>
     (pc = "END" /\ trace = SubSeq(Chain, 1, 2))

C1_Witness ==
  /\ pc = "END"
  /\ trace = SubSeq(Chain, 1, 2)
  /\ ~last.raised
  /\ ~Truthy(state.issue_no)
  /\ Truthy(state.customer_email)

\* C2: after Customer Conversation returns, the next step is Collect
\* Customer Information exactly when issue_no is absent and END otherwise,
\* and a run that has reached END executes nothing more; so a run that
\* starts with issue_no present executes Customer Conversation only.
C2_RouteAfterConversation ==
  [][ /\ (pc = "Customer Conversation" /\ pc' # "RAISED") =>
           pc' = (IF Truthy(state'.issue_no) THEN "END" ELSE "Collect Customer Information")
      /\ (pc = "Customer Conversation" /\ Truthy(state.issue_no)) => pc' \in {"END", "RAISED"}
      /\ pc = "END" => (pc' = "START" /\ trace' = <<>>) ]_vars

C2_Witness ==
  /\ pc = "END"
  /\ trace = <<"Customer Conversation">>
  /\ Truthy(state.issue_no)
  /\ last.node = "Customer Conversation"
  /\ "messages" \in DOMAIN last.update

\* C3: the nodes executed in a run form a prefix of the fixed chain (so
\* each executes at most once and Generate Response only after the five
\* earlier triage nodes, in order), and every started run reaches END
\* unless a node raises.
C3_SequentialChain ==
  /\ [](IsPrefix(trace, Chain))
  /\ [](pc = "START" => <>(pc \in {"END", "RAISED"}))

C3_Witness ==
  /\ pc = "END"
  /\ trace = Chain

\* C4: a customer_email or issue_no in the update of Collect Customer
\* Information is the stripped, non-empty email / issue_no argument of a
\* record_customer_info tool call of an assistant message in the agent
\* loop's output.
RecordedArg(msgs, arg, v) ==
  \E i \in DOMAIN msgs : \E j \in DOMAIN msgs[i].tool_calls :
    /\ msgs[i].type = "ai"
    /\ msgs[i].tool_calls[j].name = "record_customer_info"
    /\ arg \in DOMAIN msgs[i].tool_calls[j].args
    /\ Strip(msgs[i].tool_calls[j].args[arg]) = v

C4_OnlyRecordedValues ==
  (last.node = "Collect Customer Information" /\ ~last.raised) =>
     /\ "customer_email" \in DOMAIN last.update =>
          /\ last.update["customer_email"] # <<>>
          /\ RecordedArg(state.messages, "email", last.update["customer_email"])
     /\ "issue_no" \in DOMAIN last.update =>
          /\ last.update["issue_no"] # <<>>
          /\ RecordedArg(state.messages, "issue_no", last.update["issue_no"])

C4_Witness ==
  /\ last.node = "Collect Customer Information"
  /\ ~last.raised
  /\ "customer_email" \in DOMAIN last.update
  /\ last.update["customer_email"] = <<"a@x">>
  /\ "issue_no" \notin DOMAIN last.update
  /\ RecordedArg(state.messages, "issue_no", <<>>)
  /\ Contains(state.messages[1].content.text, <<"AS-1">>)

\* C5: Collect Customer Information adopts an email / issue pair only if,
\* among this turn's tool calls, find_customer succeeded for that email
\* and the tracker's reporter lookup for that issue returned that email.
ValidatedInTurn(turn, e, i) ==
  /\ \E a \in DOMAIN turn :
       /\ turn[a].type = "tool"
       /\ turn[a].name = "find_customer"
       /\ Strip(Get(turn[a].args, "email", <<>>)) = e
       /\ DOMAIN turn[a].result # {}
       /\ "error" \notin DOMAIN turn[a].result
  /\ \E b \in DOMAIN turn :
       /\ turn[b].type = "tool"
       /\ turn[b].name = "get_jira_field_value"
       /\ Strip(Get(turn[b].args, "issue_key", <<>>)) = i
       /\ "reporter" \in DOMAIN turn[b].result
       /\ turn[b].result["reporter"] = e

C5_ValidatedBeforeAdopted ==
  ( /\ last.node = "Collect Customer Information"
    /\ ~last.raised
    /\ "customer_email" \in DOMAIN last.update
    /\ "issue_no" \in DOMAIN last.update ) =>
     ValidatedInTurn(Get(last.update, "messages", <<>>),
                     last.update["customer_email"], last.update["issue_no"])

\* C6: whenever Fetch Issue Details executes, customer_email and issue_no
\* are both non-empty in state.
C6_BothIdentifiersAtFetch ==
  (pc = "Fetch Issue Details" \/ last.node = "Fetch Issue Details") =>
     (Truthy(state.customer_email) /\ Truthy(state.issue_no))

\* C7: a node call on a state whose transaction_id (order_no) is non-empty
\* leaves that field as it is, and the update of Analyze Attachments and
\* of Analyze Summary does not contain it, whatever the model extracts.
C7_KnownIdsImmutable ==
  [][ \A f \in {"transaction_id", "order_no"} :
        Truthy(state[f]) =>
          /\ state'[f] = state[f]
          /\ last'.node \in {"Analyze Attachments", "Analyze Summary"} =>
               f \notin DOMAIN last'.update ]_vars

C7_Witness ==
  /\ pc = "RETURNED"
  /\ last.node = "Analyze Attachments"
  /\ ~last.raised
  /\ state.attachments # <<>>
  /\ last.env.image_ok
  /\ last.env.reply.parsed
  /\ last.env.reply.val = <<"T1">>
  /\ state.transaction_id = <<"T2">>

\* C8: the response adopted by Generate Response never contains both the
\* transaction_id and the order_no held in state.
C8_AtMostOneIdDisclosed ==
  ( /\ last.node = "Generate Response"
    /\ ~last.raised
    /\ Truthy(state.transaction_id)
    /\ Truthy(state.order_no) ) =>
     ~( /\ Contains(state.response, state.transaction_id)
        /\ Contains(state.response, state.order_no) )

\* C9: when the agent loop of Generate Response returns a result without
\* an assistant message whose extracted text is longer than 100 characters,
\* the node raises: no update, state unchanged, no tracker call.  Otherwise
\* the response is the text of the last such message, stored in state and
\* sent to the tracker.
LongAssistant(m) == m.type = "ai" /\ StrLen(extract_text_content(m.content)) > 100

C9_ResponseOrRaise ==
  [][ ( /\ pc = "Generate Response"
        /\ last'.node = "Generate Response"
        /\ last'.env.init_ok
        /\ ~last'.env.agent_raises ) =>
      LET result == <<TriggerMessage>> \o AgentRun(last'.env.turns, last'.env.world)
          long == { i \in DOMAIN result : LongAssistant(result[i]) }
      IN IF long = {}
           THEN /\ pc' = "RAISED"
                /\ last'.raised
                /\ DOMAIN last'.update = {}
                /\ state' = state
                /\ jira_writes' = jira_writes
           ELSE \E i \in long :
                  /\ \A j \in long : j <= i
                  /\ pc' = "END"
                  /\ last'.update["response"] = extract_text_content(result[i].content)
                  /\ state'.response = last'.update["response"]
                  /\ jira_writes' =
                       Append(jira_writes,
                              JiraWrite("set_response", state.issue_no, state'.response)) ]_vars

C9_Witness ==
  /\ pc = "RAISED"
  /\ last.node = "Generate Response"
  /\ last.env.init_ok
  /\ ~last.env.agent_raises
  /\ last.env.turns = <<FinalTurn(<<"w100">>)>>
  /\ state.response # <<"w100">>

\* C10: no node other than Generate Response raises; whatever fails inside
\* it, the node returns an update and the run goes on.
C10_OnlyResponseRaises ==
  last.raised => last.node = "Generate Response"

\* C11: when the agent loop raises inside Customer Conversation or Collect
\* Customer Information, the node returns an update that holds only
\* messages, with the node's one fixed assistant message; the merged state
\* differs from the old one by that appended message alone, no tracker call
\* is made, and the run goes on to the node's routing step.
C11_FallbackOnAgentFailure ==
  [][ ( /\ pc \in {"Customer Conversation", "Collect Customer Information"}
        /\ last'.node = pc
        /\ last'.env.init_ok
        /\ last'.env.agent_raises
        /\ pc = "Customer Conversation" => Truthy(state.issue_no)
        /\ pc = "Collect Customer Information" =>
              ~(Truthy(state.customer_email) /\ Truthy(state.issue_no)) ) =>
      LET fixed == IF pc = "Customer Conversation"
                     THEN AIMessage(StrContent(<<"I apologize, but I encountered an error.">>), <<>>)
                     ELSE AIMessage(StrContent(<<"I need your email address and support issue/ticket number.">>), <<>>)
      IN /\ ~last'.raised
         /\ DOMAIN last'.update = {"messages"}
         /\ last'.update["messages"] = <<fixed>>
         /\ state' = [state EXCEPT !.messages = Append(@, fixed)]
         /\ jira_writes' = jira_writes
         /\ pc' = IF pc = "Customer Conversation"
                    THEN route_after_conversation(state')
                    ELSE route_after_collect_info(state') ]_vars

C11_Witness ==
  /\ pc = "END"
  /\ last.node = "Customer Conversation"
  /\ last.env.init_ok
  /\ last.env.agent_raises
  /\ Truthy(state.issue_no)
  /\ state.messages[Len(state.messages)] = ConversationFallback

\* C12: whenever issue_no is absent from the state Customer Conversation is
\* called on, the node returns an empty update: it does not raise, the
\* state (messages included) stays as it was and no agent loop output is
\* surfaced.
C12_ConversationNoOpWithoutIssue ==
  [][ ( /\ pc = "Customer Conversation"
        /\ ~Truthy(state.issue_no)
        /\ last'.node = "Customer Conversation" ) =>
      ( /\ ~last'.raised
        /\ DOMAIN last'.update = {}
        /\ state' = state ) ]_vars

\* C13: whatever the memory backend does and whatever the agent state is,
\* after_model does not raise and returns None; a middleware without a
\* memory service makes no backend request.
C13_MemoryBestEffort ==
  last.node = "after_model" =>
    /\ ~last.raised
    /\ last.update = None
    /\ ~last.env.mw.memory_service => last.calls = <<>>

C13_Witness ==
  /\ last.node = "after_model"
  /\ last.env.mw.memory_service
  /\ last.env.backend = "client_error"
  /\ Len(last.calls) = 1
  /\ ~last.raised

ToolNames == { "find_customer", "find_order", "find_transaction",
               "get_transaction_for_order", "get_refund_for_order", "get_jira_field_value" }

\* The key arguments of the tool call in last are missing or empty.
KeysMissing ==
  LET a == last.env.args
  IN CASE last.node = "find_customer" ->
            Get(a, "email", <<>>) = <<>> /\ Get(a, "customer_id", <<>>) = <<>>
       [] last.node = "find_transaction" -> Get(a, "transaction_id", <<>>) = <<>>
       [] last.node = "get_jira_field_value" ->
            Get(a, "issue_key", <<>>) = <<>> \/ Get(a, "field_name", <<>>) = <<>>
       [] OTHER -> Get(a, "order_no", <<>>) = <<>>

\* C14 as stated: no tool raises; with missing or empty key arguments a
\* tool returns the empty mapping without contacting its backend; and when
\* the backend fails, every tool, get_jira_field_value included, returns a
\* mapping with an error key.
C14_ToolsReturnErrorKey ==
  last.node \in ToolNames =>
    /\ ~last.raised
    /\ KeysMissing => (DOMAIN last.update = {} /\ ~last.contacted)
    /\ (~KeysMissing /\ last.node # "get_jira_field_value" /\ state.mcp = "fail") =>
         "error" \in DOMAIN last.update
    /\ (~KeysMissing /\ last.node = "get_jira_field_value"
          /\ (~state.jira_service_ok \/ state.tracker = "fail")) =>
         "error" \in DOMAIN last.update

\* C14, amended: no tool raises; with missing or empty key arguments a tool
\* returns the empty mapping without contacting its backend; when the MCP
\* gateway fails the five store tools return a mapping with an error key;
\* get_jira_field_value returns an error key only when the tracker service
\* cannot be obtained, and the empty mapping when the tracker call fails.
C14_ToolsNeverRaise ==
  last.node \in ToolNames =>
    /\ ~last.raised
    /\ KeysMissing => (DOMAIN last.update = {} /\ ~last.contacted)
    /\ (~KeysMissing /\ last.node # "get_jira_field_value" /\ state.mcp = "fail") =>
         "error" \in DOMAIN last.update
    /\ (~KeysMissing /\ last.node = "get_jira_field_value" /\ ~state.jira_service_ok) =>
         "error" \in DOMAIN last.update
    /\ (~KeysMissing /\ last.node = "get_jira_field_value" /\ state.jira_service_ok
          /\ state.tracker = "fail") =>
         DOMAIN last.update = {}

C14_Witness ==
  /\ last.node = "find_order"
  /\ ~KeysMissing
  /\ state.mcp = "fail"
  /\ ~last.raised
  /\ last.contacted
  /\ "error" \in DOMAIN last.update

\* The (actorId, sessionId) under which create_event stores an event for
\* the raw identifiers a and t.
StoredKey(a, t) ==
  LET request == create_event(a, t, <<[role |-> "user", content |-> <<"w40">>]>>, "event").calls[1]
  IN <<request.actorId, request.sessionId>>

\* C15: every memory request made for raw identifiers (a, t), by
\* create_event or by list_events, addresses the key under which
\* create_event stores events for (a, t); and an actor id the UI has
\* already sanitised leads to that same key.
C15_SameStorageKey ==
  (last.node \in {"create_event", "list_events"} /\ last.calls # <<>>) =>
    /\ <<last.calls[1].actorId, last.calls[1].sessionId>>
         = StoredKey(last.env.actor_id, last.env.session_id)
    /\ StoredKey(sanitize_actor_id(last.env.actor_id), last.env.session_id)
         = StoredKey(last.env.actor_id, last.env.session_id)

\* C16: sanitising an identifier that has been sanitised changes nothing:
\* sanitize(sanitize(x)) = sanitize(x) for every identifier x.
C16_SanitizeIdempotent ==
  last.node = "_sanitize_id" =>
    /\ last.update = _sanitize_id(state)
    /\ _sanitize_id(last.update) = last.update

C16_Witness ==
  /\ last.node = "_sanitize_id"
  /\ state = <<".", "a", "@">>
  /\ last.update = <<"i", "d", "-", "-", "a", "-", "a", "t", "-">>

\* C17: for every non-empty identifier (valid emails among them) the
\* sanitised identifier starts with an alphanumeric character and matches
\* the memory-id pattern as a whole.
C17_SanitizedMatchesPattern ==
  (last.node = "_sanitize_id" /\ Truthy(state)) =>
    /\ last.update[1] \in Alnum
    /\ MatchesIdPattern(last.update)

\* The positions at which a non-blank line of text has its first and its
\* last non-whitespace token.
SameLine(text, i, j) == \A k \in i..j : text[k] # "\n"
FirstOfLine(text) ==
  { i \in DOMAIN text :
      /\ text[i] \notin Whitespace
      /\ \A j \in 1..(i - 1) : text[j] \notin Whitespace => ~SameLine(text, j, i) }
LastOfLine(text, i) ==
  CHOOSE j \in i..Len(text) :
    /\ text[j] \notin Whitespace
    /\ SameLine(text, i, j)
    /\ \A k \in (j + 1)..Len(text) : text[k] \notin Whitespace => ~SameLine(text, j, k)

\* C18: the document converted from a text has one paragraph per non-blank
\* line, in line order, each holding one text node with the line's text
\* without its surrounding whitespace; a text without a non-blank line
\* gives exactly one paragraph with empty content.
C18_ParagraphPerNonBlankLine ==
  last.node = "_convert_text_to_adf" =>
    LET doc == last.update
        firsts == FirstOfLine(state)
    IN /\ doc.type = "doc"
       /\ IF firsts = {}
            THEN doc.content = <<Paragraph(<<>>)>>
            ELSE /\ Len(doc.content) = Cardinality(firsts)
                 /\ \A i \in firsts :
                      doc.content[Cardinality({ j \in firsts : j <= i })]
                        = Paragraph(<<TextNode(SubSeq(state, i, LastOfLine(state, i)))>>)

C18_Witness ==
  /\ last.node = "_convert_text_to_adf"
  /\ state = <<"w40", "\n", "\t", "\n">>
  /\ Len(last.update.content) = 1

Categories == { <<"Transaction">>, <<"Delivery">>, <<"Refunds">>, <<"Other">> }

\* C20: once Determine Category has returned, the category in state and
\* the value sent to the tracker are one of Transaction, Delivery, Refunds
\* and Other.
C20_CategoryInFixedSet ==
  (last.node = "Determine Category" /\ ~last.raised) =>
    /\ state.category \in Categories
    /\ jira_writes[Len(jira_writes)].value \in Categories

\* The agent loop of the node at pc ran to its end in the step, and the
\* node returned.
AgentLoopCompleted ==
  /\ pc \in {"Customer Conversation", "Collect Customer Information", "Generate Response"}
  /\ last'.node = pc
  /\ ~last'.raised
  /\ last'.env.init_ok
  /\ ~last'.env.agent_raises
  /\ pc = "Customer Conversation" => Truthy(state.issue_no)
  /\ pc = "Collect Customer Information" =>
        ~(Truthy(state.customer_email) /\ Truthy(state.issue_no))
  /\ pc = "Generate Response" => Truthy(state.issue_no)

\* The messages of the agent loop's result beyond those it was given.
NewAgentMessages ==
  LET input == IF pc = "Generate Response" THEN <<TriggerMessage>> ELSE state.messages
      result == input \o AgentRun(last'.env.turns, last'.env.world)
  IN [k \in 1..(Len(result) - Len(input)) |-> result[Len(input) + k]]

C23_FailedDownloadsSkipped ==
  ( /\ last.node = "Fetch Issue Details"
    /\ Truthy(state.issue_no)
    /\ last.env.issue.found ) =>
    LET names == last.env.issue.attachment
        kept == { k \in DOMAIN names : last.env.download_ok[k] }
    IN /\ ~last.raised
       /\ DOMAIN last.update = {"summary", "description", "attachments", "assignee",
                                "reporter", "category", "response"}
       /\ Len(last.update["attachments"]) = Cardinality(kept)
       /\ \A k \in kept :
            last.update["attachments"][Cardinality({ j \in kept : j <= k })]
              = state.issue_no \o <<"-">> \o names[k]
       /\ last.update["summary"] = Or(last.env.issue.summary, <<>>)
       /\ last.update["reporter"] = last.env.issue.reporter

C23_Witness ==
  /\ last.node = "Fetch Issue Details"
  /\ Len(last.env.issue.attachment) = 2
  /\ last.env.download_ok = <<FALSE, TRUE>>
  /\ ~last.raised
  /\ "attachments" \in DOMAIN last.update
  /\ last.update["attachments"] = << <<"AS-1", "-", "file", "2">> >>
  /\ last.update["summary"] = <<"w40">>

\* C24: Assign Support Contact never raises; it sets assignee to the
\* configured default assignee exactly when one is configured and the
\* tracker's assign call succeeded, and otherwise returns an empty update
\* that leaves the state as it was.
C24_AssigneeOnlyOnSuccess ==
  [][ (pc = "Assign Support Contact" /\ last'.node = "Assign Support Contact") =>
      LET username == last'.env.jira_assignee_username
      IN /\ ~last'.raised
         /\ pc' = "Determine Category"
         /\ IF Truthy(username) /\ last'.env.assign_ok
              THEN /\ last'.update = [assignee |-> username]
                   /\ state' = [state EXCEPT !.assignee = username]
              ELSE /\ DOMAIN last'.update = {}
                   /\ state' = state ]_vars

C24_Witness ==
  /\ last.node = "Assign Support Contact"
  /\ Truthy(last.env.jira_assignee_username)
  /\ ~last.env.assign_ok
  /\ ~last.raised
  /\ pc = "Determine Category"
  /\ state.assignee = <<>>
  /\ jira_writes # <<>>
  /\ jira_writes[Len(jira_writes)].op = "assign_issue"

\* A message the memory store may hold: a user, assistant or tool message
\* with a non-empty string content or with a text block.
Persistable(m) ==
  /\ m.type \in {"human", "ai", "tool"}
  /\ IF m.content.isList
       THEN \E k \in DOMAIN m.content.blocks :
              m.content.blocks[k].hasText /\ m.content.blocks[k].text # <<>>
       ELSE m.content.text # <<>>

\* The payload entry p holds message m: its role, and its text (for a
\* content list, a text containing every text block).
Holds(p, m) ==
  /\ p.conversational.role
       = (CASE m.type = "human" -> "USER" [] m.type = "ai" -> "ASSISTANT" [] OTHER -> "TOOL")
  /\ IF m.content.isList
       THEN \A k \in DOMAIN m.content.blocks :
              m.content.blocks[k].hasText =>
                Contains(p.conversational.content.text, m.content.blocks[k].text)
       ELSE p.conversational.content.text = m.content.text

\* C25: every entry of an event payload after_model hands to the memory
\* store has a role among USER, ASSISTANT and TOOL and a non-empty text; the
\* payload holds, in their order, exactly the persistable messages of a
\* final stretch of the history (so no system message and no message
\* without text), and no request is made when that stretch has none.
C25_PayloadRolesAndText ==
  last.node = "after_model" =>
    /\ Len(last.calls) <= 1
    /\ \A c \in DOMAIN last.calls :
         LET payload == last.calls[c].payload
             msgs == state.messages
         IN /\ payload # <<>>
            /\ \A k \in DOMAIN payload :
                 /\ payload[k].conversational.role \in {"USER", "ASSISTANT", "TOOL"}
                 /\ payload[k].conversational.content.text \notin {<<>>, None}
            /\ \E start \in DOMAIN msgs :
                 LET kept == { k \in start..Len(msgs) : Persistable(msgs[k]) }
                 IN /\ Len(payload) = Cardinality(kept)
                    /\ \A k \in kept :
                         Holds(payload[Cardinality({ j \in kept : j <= k })], msgs[k])
    /\ (\A k \in DOMAIN state.messages : ~Persistable(state.messages[k])) => last.calls = <<>>

C25_Witness ==
  /\ last.node = "after_model"
  /\ Len(state.messages) = 4
  /\ state.messages[2].content.text = <<>>
  /\ Len(last.calls) = 1
  /\ Len(last.calls[1].payload) = 3
  /\ last.calls[1].payload[2].conversational.role = "TOOL"
  /\ last.calls[1].payload[3].conversational.content.text = <<"w40", " ", "w40">>

\* C26: called on a state whose attachments list is empty, Analyze
\* Attachments returns an empty update and leaves the state as it was,
\* whatever transaction_id and the other fields hold; it makes no model
\* call, so neither a failing model nor any reply of it has an effect.
C26_NoAttachmentsNoOp ==
  [][ ( /\ pc = "CALL"
        /\ last'.node = "Analyze Attachments"
        /\ state.attachments = <<>> ) =>
      ( /\ ~last'.raised
        /\ DOMAIN last'.update = {}
        /\ state' = state
        /\ jira_writes' = jira_writes ) ]_vars

C26_Witness ==
  /\ last.node = "Analyze Attachments"
  /\ state.attachments = <<>>
  /\ state.transaction_id = <<"T2">>
  /\ last.env.image_ok
  /\ last.env.llm_raises
  /\ ~last.raised
  /\ DOMAIN last.update = {}

\* C27: called, with its tools initialised, on a state in which
\* customer_email and issue_no are both present, Collect Customer
\* Information returns an update that holds
\* customer_name alone, the store's name for that email: messages and every
\* other field stay as they were, and no agent loop runs.
C27_ShortCircuitLookup ==
  [][ ( /\ pc = "CALL"
        /\ last'.node = "Collect Customer Information"
        /\ last'.env.init_ok
        /\ Truthy(state.customer_email)
        /\ Truthy(state.issue_no) ) =>
      ( /\ ~last'.raised
        /\ last'.update = [customer_name |-> <<"Ann">>]
        /\ state' = [state EXCEPT !.customer_name = <<"Ann">>] ) ]_vars

\* C29: when the agent loop of Collect Customer Information has completed
\* and its result holds a record_customer_info call with a non-empty email
\* (issue_no), the node's update holds a recorded email (issue_no) and the
\* loop's new messages, whether the customer_name lookup succeeds, finds
\* nothing or fails.
C29_RecordedValuesSurviveLookup ==
  [][ ( /\ pc = "Collect Customer Information"
        /\ last'.node = "Collect Customer Information"
        /\ last'.env.init_ok
        /\ ~last'.env.agent_raises
        /\ ~(Truthy(state.customer_email) /\ Truthy(state.issue_no)) ) =>
      LET new == AgentRun(last'.env.turns, last'.env.world)
          Recorded(arg) == \E i \in DOMAIN new : \E j \in DOMAIN new[i].tool_calls :
                             /\ new[i].tool_calls[j].name = "record_customer_info"
                             /\ Strip(Get(new[i].tool_calls[j].args, arg, <<>>)) # <<>>
      IN /\ ~last'.raised
         /\ Get(last'.update, "messages", <<>>) = new
         /\ Recorded("email") =>
              /\ "customer_email" \in DOMAIN last'.update
              /\ RecordedArg(new, "email", last'.update["customer_email"])
         /\ Recorded("issue_no") =>
              /\ "issue_no" \in DOMAIN last'.update
              /\ RecordedArg(new, "issue_no", last'.update["issue_no"]) ]_vars

\* C28: when the caller supplies an actor id and a thread id, every memory
\* event written from the agent loop of Customer Conversation, Collect
\* Customer Information or Generate Response is stored under the key of
\* that pair, never under one derived from customer_email or issue_no.
C28_EventsKeyedByCallerIds ==
  ( /\ last.node = "after_model"
    /\ "workflow_node" \in DOMAIN last.env
    /\ Truthy(last.env.config.actor_id)
    /\ Truthy(last.env.config.thread_id) ) =>
    \A c \in DOMAIN last.calls :
      <<last.calls[c].actorId, last.calls[c].sessionId>>
        = StoredKey(last.env.config.actor_id, last.env.config.thread_id)

\* C30: the response Generate Response adopts, stores and sends to the
\* tracker is the text of an assistant message of this agent loop that
\* carries no tool calls; it is not the text of the node's trigger message
\* and not the text that accompanies a tool-call request.
C30_ResponseIsFinalAnswer ==
  (last.node = "Generate Response" /\ ~last.raised /\ "response" \in DOMAIN last.update) =>
    LET produced == AgentRun(last.env.turns, last.env.world)
    IN /\ \E k \in DOMAIN produced :
            /\ produced[k].type = "ai"
            /\ produced[k].tool_calls = <<>>
            /\ extract_text_content(produced[k].content) = last.update["response"]
       /\ state.response = last.update["response"]
       /\ jira_writes[Len(jira_writes)] = JiraWrite("set_response", state.issue_no, state.response)

\* The run on its own: the nodes it went through, each applied to the
\* state the previous ones left, with the tools answering from the globals
\* the run's own initialisation set up.
StepAlone(acc, step) ==
  LET out == NodeFunction(step.node, acc.state, step.env)
  IN [state |-> IF out.raised THEN acc.state ELSE Merge(acc.state, out.update),
      writes |-> acc.writes \o out.writes,
      raised |-> out.raised]

RECURSIVE RunAlone(_)
RunAlone(steps) ==
  IF Len(steps) = 1
    THEN [state |-> steps[1].env.input, writes |-> <<>>, raised |-> FALSE]
    ELSE CHOOSE after \in { StepAlone(before, steps[Len(steps)]) :
                              before \in { RunAlone(SubSeq(steps, 1, Len(steps) - 1)) } } : TRUE

RECURSIVE WritesFor(_, _)
WritesFor(issue, writes) ==
  IF writes = <<>> THEN <<>>
  ELSE (IF Head(writes).issue = issue THEN <<Head(writes)>> ELSE <<>>)
       \o WritesFor(issue, Tail(writes))

\* C21: two runs for different issues, interleaved at node and tool-call
\* boundaries and sharing the module-level tool backends that each node
\* re-initialises, are independent: after every node a run has completed,
\* its state, its tracker writes and whether it raised are those of the
\* same run executed on its own.
C21_RunsIndependent ==
  \A r \in RunIds :
    \A alone \in { RunAlone(trace[r]) } :
      /\ state[r] = alone.state
      /\ WritesFor(Identity(r).issue, jira_writes) = alone.writes
      /\ (pc[r].node = "RAISED") = alone.raised

\* Both runs are over, the first one with a response, after a gateway call
\* of the first run was answered by the service instance the second run's
\* initialisation had put in place.
C21_Witness ==
  /\ \A r \in RunIds : pc[r].phase = "done"
  /\ pc[1].node = "END"
  /\ Truthy(state[1].response)
  /\ \E i \in 2..Len(trace[1]) : trace[1][i].seen.mcp_service = 2
  /\ \E w \in 1..Len(jira_writes) : jira_writes[w].issue = Identity(2).issue

====
